------------------------ MODULE PositionMonitorProofs ------------------------
(***************************************************************************)
(* What the Position Monitor keeps for any positions, symbols, prices and  *)
(* limits: its types, that no touch is lost unreported, that an EOD        *)
(* observation never hides a touch, and that its slots implement           *)
(* ExitObservations.                                                       *)
(***************************************************************************)
EXTENDS PositionMonitor, FiniteSetTheorems, SequenceTheorems, WellFoundedInduction, TLAPS

---------------------------------------------------------------------------
(* The inductive invariant                                                 *)

Ticks == [symbol : Symbols, price : Int, ts : Int, seq : Nat, arrived : Nat]
SlotStates == {"none", "pending", "acknowledged", "expired"}
Reasons == {"none", "stop", "target", "eod_flatten"}
SlotRecords == [state : SlotStates, reason : Reasons, ts : Int]
Wakeups == {"replay", "pulse"}

VariablesTyped ==
  /\ seq \in 0 .. MaxEvents /\ now \in Nat
  /\ visible \subseteq Positions /\ held \subseteq Positions /\ closed \subseteq Positions
  /\ stage \in [Positions -> {"none", "open", "closed"}]
  /\ openedAt \in [Positions -> Int] /\ tickFloor \in [Positions -> Int]

SlotsOK(f) ==
  /\ f \in [Kinds -> SlotRecords]
  /\ \A k \in Kinds : f[k].state = "none" => f[k] = NoSlot
SlotsTyped ==
  /\ slots = [p \in Positions |-> slots[p]]
  /\ \A p \in Positions : SlotsOK(slots[p])

Items == [kind : Wakeups, seq : Nat] \cup
         [kind : {"candle"}, seq : Nat, symbol : Symbols, low : Int, high : Int, ts : Int]

(* At most one wake-up of a kind is queued; candles are queued each.       *)
QueueOK(q) ==
  /\ q \in Seq(Items)
  /\ \A i, j \in DOMAIN q : q[i].kind = q[j].kind /\ q[i].kind \in Wakeups => i = j
QueueSound == QueueOK(queue)

Used == {s \in Symbols : journal[s] # {}}
Marked == {s \in Symbols : fillPending[s] # NoTime}

(* The journal keeps accepted ticks, within its two limits; so do the      *)
(* markers within theirs.                                                  *)
JournalSound ==
  /\ journal \in [Symbols -> SUBSET accepted]
  /\ \A s \in Symbols : /\ IsFiniteSet(journal[s])
                        /\ Cardinality(journal[s]) <= MaxTicksPerSymbol
                        /\ \A t \in journal[s] : t.symbol = s
  /\ IsFiniteSet(Used) /\ Cardinality(Used) <= MaxSymbols
MarkersSound ==
  /\ fillPending \in [Symbols -> Int]
  /\ IsFiniteSet(Marked) /\ Cardinality(Marked) <= MaxSymbols

(* Arrivals are numbered from 1 in the order of time, and no tick is of    *)
(* the future.                                                             *)
TicksSound ==
  /\ accepted \subseteq Ticks
  /\ \A t \in accepted : t.seq \in 1 .. seq /\ t.ts <= t.arrived /\ t.arrived <= now
  /\ progress \in [Positions -> 0 .. seq]

(* A symbol has one open position, which Portfolio State forgets only when *)
(* it is closed; one that never opened was never looked at.                *)
PositionsSound ==
  \A p \in Positions :
    /\ stage[p] = "none" => p \notin held /\ p \notin visible /\ progress[p] = 0
    /\ p \in closed => stage[p] = "closed"
    /\ stage[p] = "open" /\ p \in visible => p \in held
    /\ stage[p] = "open" => \A q \in Positions \ {p} :
         SymbolOf[q] = SymbolOf[p] => /\ stage[q] # "open"
                                      /\ p \notin held => q \notin held

(* A tick as young as the retention is journaled, unless its loss is told. *)
RecentKept ==
  \A t \in accepted : now - t.arrived < Retention => t \in journal[t.symbol] \/ Excused(t)

StillUnread(p, t) == t \in journal[t.symbol] /\ t.seq > progress[p]

(* TouchNotLost also of a position that has just closed and whose closing  *)
(* Portfolio State has not yet told.                                       *)
Minded(p) == (stage[p] = "open" \/ p \in held) /\ p \notin closed /\ p \notin invalid
Accounted(p, t) == slots[p]["protective"] # NoSlot \/ StillUnread(p, t) \/ Excused(t)
TouchesKept ==
  \A p \in Positions : Minded(p) =>
    \A t \in accepted : t.symbol = SymbolOf[p] /\ Touches(p, t) => Accounted(p, t)

LossTold == evicted \cup expiredFlat # {} => lost

MonitorInv ==
  /\ VariablesTyped /\ SlotsTyped /\ QueueSound /\ JournalSound /\ MarkersSound
  /\ TicksSound /\ PositionsSound /\ RecentKept /\ TouchesKept /\ LossTold

---------------------------------------------------------------------------
(* Least and greatest members                                              *)

LEMMA LeastExists ==
  ASSUME NEW S \in SUBSET Nat, S # {}
  PROVE  \E m \in S : \A n \in S : m <= n
<1> DEFINE R == {pair \in Nat \X Nat : pair[1] < pair[2]}
<1>1. IsWellFoundedOn(R, Nat)
  BY NatLessThanWellFounded DEF OpToRel
<1>2. \A m, n \in Nat : <<n, m>> \in R <=> n < m
  OBVIOUS
<1> HIDE DEF R
<1>3. \E m \in S : \A n \in S : ~(<<n, m>> \in R)
  BY <1>1, WFMin
<1>4. PICK m \in S : \A n \in S : ~(<<n, m>> \in R)
  BY <1>3
<1>5. ASSUME NEW n \in S
      PROVE  m <= n
  <2>1. m \in Nat /\ n \in Nat
    OBVIOUS
  <2>2. ~(n < m)
    BY <1>2, <1>4, <2>1
  <2> QED BY <2>1, <2>2
<1> QED BY <1>5

LEMMA GreatestExists ==
  ASSUME NEW b \in Nat, NEW S \in SUBSET (0 .. b), S # {}
  PROVE  \E m \in S : \A n \in S : n <= m
<1> DEFINE T == {n \in 0 .. b : b - n \in S}
<1>1. T \in SUBSET Nat
  OBVIOUS
<1>2. T # {}
  <2>1. PICK n : n \in S
    OBVIOUS
  <2>2. b - n \in T
    BY <2>1
  <2> QED BY <2>2
<1>3. PICK k \in T : \A n \in T : k <= n
  BY <1>1, <1>2, LeastExists
<1>4. b - k \in S
  OBVIOUS
<1>5. ASSUME NEW n \in S
      PROVE  n <= b - k
  <2>1. b - n \in T
    BY <1>5
  <2>2. k <= b - n
    BY <1>3, <2>1
  <2> QED BY <2>2
<1> QED BY <1>4, <1>5

(* Max of bounded numbers is one of them and no less than any.             *)
LEMMA MaxFacts ==
  ASSUME NEW b \in Nat, NEW S \in SUBSET (0 .. b), S # {}
  PROVE  Max(S) \in S /\ \A n \in S : n <= Max(S)
<1>1. PICK m \in S : \A n \in S : n <= m
  BY GreatestExists
<1>2. m \in S /\ \A n \in S : m >= n
  BY <1>1
<1>3. Max(S) \in S /\ \A n \in S : Max(S) >= n
  BY <1>2 DEF Max
<1>4. ASSUME NEW n \in S
      PROVE  n <= Max(S)
  <2>1. Max(S) \in S /\ Max(S) >= n
    BY <1>3
  <2>2. PICK k \in S : k = Max(S)
    BY <2>1
  <2>3. k >= n /\ k \in Int /\ n \in Int
    BY <2>1, <2>2
  <2> QED BY <2>2, <2>3
<1> QED BY <1>3, <1>4

(* The first of some ticks is one of them.                                 *)
LEMMA FirstFacts ==
  ASSUME NEW T \in SUBSET Ticks, T # {}
  PROVE  First(T) \in T
<1> DEFINE S == {t.seq : t \in T}
<1>1. S \in SUBSET Nat /\ S # {}
  BY DEF Ticks
<1>2. PICK m \in S : \A n \in S : m <= n
  BY <1>1, LeastExists
<1>3. PICK t \in T : t.seq = m
  BY <1>2
<1>4. \A u \in T : t.seq <= u.seq
  BY <1>2, <1>3
<1> QED BY <1>4 DEF First
(* The latest of some ticks that have arrived is one of them.              *)
LEMMA LatestFacts ==
  ASSUME MonitorInv, NEW T \in SUBSET accepted, T # {}
  PROVE  Latest(T) \in T
<1>0. /\ T \subseteq Ticks /\ now \in Nat
      /\ \A t \in T : now - t.ts \in Nat
  <2>1. \A t \in T : t.ts \in Int /\ t.ts <= now
    BY DEF MonitorInv, TicksSound, Ticks, VariablesTyped
  <2> QED BY <2>1 DEF MonitorInv, TicksSound, VariablesTyped
<1> DEFINE S == {now - t.ts : t \in T}
<1>1. S \in SUBSET Nat /\ S # {}
  BY <1>0
<1>2. PICK m \in S : \A n \in S : m <= n
  BY <1>1, LeastExists
<1> DEFINE U == {t \in T : now - t.ts = m}
<1>3. U \in SUBSET Ticks /\ U # {}
  BY <1>0, <1>2
<1> DEFINE N == {t.seq : t \in U}
<1>4. N \in SUBSET Nat /\ N # {}
  BY <1>3 DEF Ticks
<1>5. PICK k \in N : \A n \in N : k <= n
  BY <1>4, LeastExists
<1>6. PICK t \in U : t.seq = k
  BY <1>5
<1>7. ASSUME NEW u \in T
      PROVE  u.ts < t.ts \/ (u.ts = t.ts /\ t.seq <= u.seq)
  <2>1. u.ts \in Int /\ t.ts \in Int /\ now \in Int
    BY <1>0, <1>6 DEF Ticks
  <2>2. now - t.ts <= now - u.ts
    BY <1>2, <1>6
  <2>3. CASE u.ts = t.ts
    <3>1. u \in U
      BY <1>6, <2>3
    <3> QED BY <1>5, <1>6, <2>3, <3>1
  <2> QED BY <2>1, <2>2, <2>3
<1> QED BY <1>6, <1>7 DEF Latest

---------------------------------------------------------------------------
(* Replay                                                                  *)

(* The unread ticks of p that a replay up to b finds touching.             *)
Touching(p, b) ==
  {t \in journal[SymbolOf[p]] : progress[p] < t.seq /\ t.seq <= b /\ Touches(p, t)}
Gone == visible \ held
Observable(p) == p \in held \ closed /\ slots[p]["protective"] = NoSlot
Touched(p, t) == [slots[p] EXCEPT !["protective"] = Pending(Evaluate(p, t.price, t.price), t.ts)]

(* What a replay up to b makes of position p: m is its result.             *)
Replayed(m, p, b) ==
  /\ p \in Gone => m.slots[p] = NoSlots /\ m.progress[p] = 0
  /\ p \notin Gone /\ ~Observable(p) => m.slots[p] = slots[p] /\ m.progress[p] = progress[p]
  /\ Observable(p) /\ Touching(p, b) # {} =>
       \E t \in Touching(p, b) : m.slots[p] = Touched(p, t) /\ m.progress[p] = t.seq
  /\ Observable(p) /\ Touching(p, b) = {} =>
       /\ m.slots[p] = slots[p]
       /\ m.progress[p] \in 0 .. seq
       /\ m.progress[p] = progress[p] \/ m.progress[p] <= b

(* What it leaves in the journal of symbol s.                              *)
Pruned(m, s) ==
  /\ m.journal[s] \subseteq journal[s]
  /\ \A t \in journal[s] :
       \/ t \in m.journal[s]
       \/ /\ Retention <= now - t.arrived
          /\ \A p \in held \ closed :
               SymbolOf[p] = s /\ Touches(p, t) /\ m.slots[p]["protective"] = NoSlot
                 => t.seq <= m.progress[p]

LEMMA ReplayFacts ==
  ASSUME MonitorInv, NEW b \in Nat, NEW m, m = ReplayThrough(b)
  PROVE  /\ m.visible = held /\ m.unavailable = FALSE /\ m.closed = closed \ Gone
         /\ m.fillPending = [s \in Symbols |->
              IF \E p \in held : SymbolOf[p] = s THEN NoTime ELSE fillPending[s]]
         /\ DOMAIN m.slots = Positions /\ DOMAIN m.progress = Positions
         /\ DOMAIN m.journal = Symbols
         /\ m.slots = [p \in Positions |-> m.slots[p]]
         /\ m.progress = [p \in Positions |-> m.progress[p]]
         /\ m.journal = [s \in Symbols |-> m.journal[s]]
         /\ \A p \in Positions : Replayed(m, p, b)
         /\ \A s \in Symbols : Pruned(m, s)
<1> DEFINE
  before == [Now EXCEPT
        !.visible = held, !.unavailable = FALSE, !.closed = closed \ Gone,
        !.progress = [p \in Positions |-> IF p \in Gone THEN 0 ELSE progress[p]],
        !.slots = [p \in Positions |-> IF p \in Gone THEN NoSlots ELSE slots[p]],
        !.fillPending = [s \in Symbols |->
           IF \E p \in held : SymbolOf[p] = s THEN NoTime ELSE fillPending[s]]]
  unread == [p \in Positions |->
        IF p \in held /\ ProtectiveOpen(before, p) THEN Unread(before, p, b) ELSE {}]
  touching == [p \in Positions |-> {t \in unread[p] : Touches(p, t)}]
  slotOf(p) == IF touching[p] = {} THEN before.slots[p]
           ELSE LET t == First(touching[p])
                IN  [before.slots[p] EXCEPT !["protective"] = Pending(Evaluate(p, t.price, t.price), t.ts)]
  progressOf(p) == IF touching[p] # {} THEN First(touching[p]).seq
           ELSE Max({before.progress[p]} \cup {t.seq : t \in unread[p]})
  after == [before EXCEPT !.slots = [p \in Positions |-> slotOf(p)],
                          !.progress = [p \in Positions |-> progressOf(p)]]
<1>1. m = [after EXCEPT !.journal = [s \in Symbols |-> Kept(after, s)]]
  BY DEF ReplayThrough, Gone
<1>2. /\ before.visible = held /\ before.unavailable = FALSE /\ before.closed = closed \ Gone
      /\ before.fillPending = [s \in Symbols |->
              IF \E p \in held : SymbolOf[p] = s THEN NoTime ELSE fillPending[s]]
      /\ before.journal = journal
      /\ before.progress = [p \in Positions |-> IF p \in Gone THEN 0 ELSE progress[p]]
      /\ before.slots = [p \in Positions |-> IF p \in Gone THEN NoSlots ELSE slots[p]]
  BY DEF Now
<1>3. DOMAIN before = {"journal", "progress", "visible", "unavailable", "fillPending", "slots", "closed"}
  BY DEF Now
<1> HIDE DEF before
<1>4. /\ after.visible = held /\ after.unavailable = FALSE /\ after.closed = closed \ Gone
      /\ after.fillPending = before.fillPending
      /\ after.journal = journal
      /\ after.progress = [p \in Positions |-> progressOf(p)]
      /\ after.slots = [p \in Positions |-> slotOf(p)]
      /\ DOMAIN after = DOMAIN before
  <2> HIDE DEF slotOf, progressOf
  <2> QED BY <1>2, <1>3
<1> HIDE DEF after
<1>5. /\ m.visible = held /\ m.unavailable = FALSE /\ m.closed = closed \ Gone
      /\ m.fillPending = before.fillPending
      /\ m.journal = [s \in Symbols |-> Kept(after, s)]
      /\ m.progress = [p \in Positions |-> progressOf(p)]
      /\ m.slots = [p \in Positions |-> slotOf(p)]
  <2> HIDE DEF slotOf, progressOf
  <2> QED BY <1>1, <1>3, <1>4
<1> HIDE DEF unread, touching, slotOf, progressOf
<1>6. ASSUME NEW p \in Positions
      PROVE  Replayed(m, p, b)
  <2>1. m.slots[p] = slotOf(p) /\ m.progress[p] = progressOf(p)
    BY <1>5
  <2>2. before.slots[p] = (IF p \in Gone THEN NoSlots ELSE slots[p])
        /\ before.progress[p] = (IF p \in Gone THEN 0 ELSE progress[p])
    BY <1>2
  <2>3. before.progress[p] \in 0 .. seq
    BY <2>2 DEF MonitorInv, TicksSound, VariablesTyped
  <2>4. p \in held /\ ProtectiveOpen(before, p) <=> Observable(p)
    BY <1>2, <2>2 DEF ProtectiveOpen, Observable, Gone
  <2>5. touching[p] = {t \in unread[p] : Touches(p, t)}
    BY DEF touching
  <2>6. CASE ~Observable(p)
    <3>1. unread[p] = {} /\ touching[p] = {}
      BY <2>4, <2>5, <2>6 DEF unread
    <3>2. slotOf(p) = before.slots[p]
      BY <3>1 DEF slotOf
    <3>3. progressOf(p) = before.progress[p]
      <4>1. {before.progress[p]} \cup {t.seq : t \in unread[p]} = {before.progress[p]}
        BY <3>1
      <4>2. Max({before.progress[p]}) \in {before.progress[p]}
        <5> DEFINE S == {before.progress[p]}
        <5>1. S \in SUBSET (0 .. seq) /\ S # {} /\ seq \in Nat
          BY <2>3 DEF MonitorInv, VariablesTyped
        <5> HIDE DEF S
        <5>2. Max(S) \in S
          BY <5>1, MaxFacts
        <5> QED BY <5>2 DEF S
      <4> QED BY <3>1, <4>1, <4>2 DEF progressOf
    <3>4. p \in Gone => ~Observable(p)
      BY DEF Gone, Observable
    <3> QED BY <2>1, <2>2, <2>6, <3>2, <3>3 DEF Replayed
  <2>7. CASE Observable(p)
    <3>1. p \notin Gone
      BY <2>7 DEF Gone, Observable
    <3>2. unread[p] = {t \in journal[SymbolOf[p]] : progress[p] < t.seq /\ t.seq <= b}
      BY <1>2, <2>2, <2>4, <2>7, <3>1 DEF unread, Unread
    <3>3. touching[p] = Touching(p, b)
      BY <2>5, <3>2 DEF Touching
    <3>4. unread[p] \in SUBSET accepted
      BY <3>2, MonitorAssumption DEF MonitorInv, JournalSound
    <3>5. CASE Touching(p, b) # {}
      <4>1. First(touching[p]) \in touching[p]
        BY <2>5, <3>3, <3>4, <3>5, FirstFacts DEF MonitorInv, TicksSound
      <4>2. PICK t \in Touching(p, b) : t = First(touching[p])
        BY <3>3, <4>1
      <4>3. slotOf(p) = Touched(p, t)
        BY <2>2, <3>1, <3>3, <3>5, <4>2 DEF slotOf, Touched
      <4>4. progressOf(p) = t.seq
        BY <3>3, <3>5, <4>2 DEF progressOf
      <4> QED BY <2>1, <2>7, <3>1, <3>5, <4>3, <4>4 DEF Replayed
    <3>6. CASE Touching(p, b) = {}
      <4>1. slotOf(p) = slots[p]
        BY <2>2, <3>1, <3>3, <3>6 DEF slotOf
      <4> DEFINE S == {before.progress[p]} \cup {t.seq : t \in unread[p]}
      <4>2. progressOf(p) = Max(S)
        BY <3>3, <3>6 DEF progressOf
      <4>3. S \in SUBSET (0 .. seq)
        BY <2>3, <3>4 DEF MonitorInv, TicksSound, VariablesTyped
      <4>4. S # {} /\ seq \in Nat
        BY DEF MonitorInv, VariablesTyped
      <4>5. \A k \in S : k = progress[p] \/ k <= b
        BY <2>2, <3>1, <3>2
      <4> HIDE DEF S
      <4>6. Max(S) \in S
        BY <4>3, <4>4, MaxFacts
      <4> QED BY <2>1, <2>7, <3>1, <3>6, <4>1, <4>2, <4>3, <4>5, <4>6 DEF Replayed
    <3> QED BY <3>5, <3>6
  <2> QED BY <2>6, <2>7
<1>7. ASSUME NEW s \in Symbols
      PROVE  Pruned(m, s)
  <2>1. m.journal[s] = Kept(after, s)
    BY <1>5
  <2>2. m.journal[s] \subseteq journal[s]
    BY <1>4, <2>1 DEF Kept
  <2>3. ASSUME NEW t \in journal[s], t \notin m.journal[s]
        PROVE  ~(now - t.arrived < Retention) /\ ~Owed(after, s, t)
    BY <1>4, <2>1, <2>3 DEF Kept
  <2>4. \A t \in journal[s] : t.arrived \in Nat /\ t.seq \in Nat
    BY DEF MonitorInv, JournalSound, TicksSound, Ticks
  <2>5. ASSUME NEW t \in journal[s], t \notin m.journal[s], NEW p \in held \ closed,
               SymbolOf[p] = s, Touches(p, t), m.slots[p]["protective"] = NoSlot
        PROVE  t.seq <= m.progress[p]
    <3>1. p \in after.visible /\ p \in Positions
      BY <1>4 DEF MonitorInv, VariablesTyped
    <3>2. after.slots[p] = m.slots[p] /\ after.progress[p] = m.progress[p]
      BY <1>4, <1>5
    <3>3. ProtectiveOpen(after, p)
      BY <1>4, <2>5, <3>2 DEF ProtectiveOpen
    <3>4. ~(t.seq > m.progress[p])
      BY <2>3, <2>5, <3>1, <3>2, <3>3 DEF Owed, Touches
    <3>5. m.progress[p] \in Nat
      <4>1. Replayed(m, p, b)
        BY <1>6, <3>1
      <4>2. progress[p] \in Nat
        BY <3>1 DEF MonitorInv, TicksSound, VariablesTyped
      <4>3. \A u \in Touching(p, b) : u.seq \in Nat
        BY <3>1, MonitorAssumption DEF Touching, MonitorInv, JournalSound, TicksSound, Ticks
      <4>4. seq \in Nat
        BY DEF MonitorInv, VariablesTyped
      <4> QED BY <4>1, <4>2, <4>3, <4>4 DEF Replayed
    <3> QED BY <2>4, <3>4, <3>5
  <2>6. now \in Nat /\ Retention \in Nat
    BY MonitorAssumption DEF MonitorInv, VariablesTyped
  <2> QED BY <2>2, <2>3, <2>4, <2>5, <2>6 DEF Pruned
<1> QED BY <1>2, <1>5, <1>6, <1>7
(* What the item in hand makes of position p after the replay.             *)
Observed(m, p) ==
  \/ slots'[p] = m.slots[p]
  \/ /\ p \in held \ m.closed /\ m.slots[p]["protective"] = NoSlot
     /\ \E r \in {"stop", "target"}, ts \in Int :
          slots'[p] = [m.slots[p] EXCEPT !["protective"] = Pending(r, ts)]
  \/ /\ p \in held \ m.closed /\ m.slots[p] = NoSlots
     /\ FlattenAt <= now /\ now < CloseAt
     /\ \E ts \in Int : /\ openedAt[p] <= ts
                        /\ slots'[p] = [m.slots[p] EXCEPT !["eod"] = Pending("eod_flatten", ts)]

LEMMA EvaluateReasons ==
  ASSUME NEW p, NEW low, NEW high
  PROVE  Evaluate(p, low, high) \in {"none", "stop", "target"}
BY DEF Evaluate

(* Every position gets the slots the replay gave it, or one more.          *)
LEMMA ProcessSlots ==
  ASSUME MonitorInv, Process, NEW m, m = ReplayThrough(Head(queue).seq)
  PROVE  /\ slots' = [p \in Positions |-> slots'[p]]
         /\ \A p \in Positions : Observed(m, p)
<1>1. /\ queue # <<>> /\ Head(queue) \in Items /\ Head(queue).seq \in Nat
      /\ Head(queue).kind \in {"replay", "candle", "pulse"}
  <2>1. queue # <<>> /\ queue \in Seq(Items)
    BY DEF Process, MonitorInv, QueueSound, QueueOK
  <2>2. Head(queue) \in Items
    BY <2>1
  <2> QED BY <2>1, <2>2 DEF Items, Wakeups
<1>2. DOMAIN m.slots = Positions /\ m.slots = [p \in Positions |-> m.slots[p]]
  BY <1>1, ReplayFacts
<1> DEFINE item == Head(queue)
<1>3. slots' = CASE item.kind = "replay" -> m.slots
                 [] item.kind = "candle" -> AfterCandle(m, item)
                 [] item.kind = "pulse" -> AfterPulse(m, item.seq)
  BY DEF Process
<1> HIDE DEF item
<1>4. CASE item.kind = "replay"
  <2>1. slots' = m.slots
    BY <1>3, <1>4
  <2> QED BY <1>2, <2>1 DEF Observed
<1>5. CASE item.kind = "candle"
  <2>1. slots' = AfterCandle(m, item)
    BY <1>3, <1>5
  <2>2. item.ts \in Int
    BY <1>1, <1>5 DEF item, Items, Wakeups
  <2>3. ASSUME NEW p \in Positions
        PROVE  Observed(m, p)
    <3> DEFINE r == Evaluate(p, item.low, item.high)
    <3>1. slots'[p] = IF p \in held /\ SymbolOf[p] = item.symbol /\ ProtectiveOpen(m, p) /\ r # "none"
                      THEN [m.slots[p] EXCEPT !["protective"] = Pending(r, item.ts)]
                      ELSE m.slots[p]
      BY <2>1 DEF AfterCandle
    <3>2. r \in {"none", "stop", "target"}
      BY EvaluateReasons
    <3> HIDE DEF r
    <3> QED BY <2>2, <3>1, <3>2 DEF Observed, ProtectiveOpen
  <2>4. slots' = [p \in Positions |-> slots'[p]]
    BY <2>1 DEF AfterCandle
  <2> QED BY <2>3, <2>4
<1>6. CASE item.kind = "pulse"
  <2>1. slots' = AfterPulse(m, item.seq)
    BY <1>3, <1>6
  <2>2. ASSUME NEW p \in Positions
        PROVE  Observed(m, p)
    <3> DEFINE ticks == {t \in m.journal[SymbolOf[p]] : t.seq <= item.seq}
               t == Latest(ticks)
               eligible == /\ p \in held \ m.closed /\ m.slots[p] = NoSlots
                     /\ FlattenAt <= now /\ now < CloseAt
                     /\ ticks # {} /\ openedAt[p] <= t.ts /\ t.ts <= now
                     /\ t.ts > (IF p \in visible \ held THEN NoTime ELSE tickFloor[p])
               r == Evaluate(p, t.price, t.price)
    <3>1. slots'[p] = IF ~eligible THEN m.slots[p]
                      ELSE IF r # "none"
                      THEN [m.slots[p] EXCEPT !["protective"] = Pending(r, t.ts)]
                      ELSE [m.slots[p] EXCEPT !["eod"] = Pending("eod_flatten", t.ts)]
      BY <2>1 DEF AfterPulse
    <3>2. r \in {"none", "stop", "target"}
      BY EvaluateReasons
    <3>3. ticks # {} => t.ts \in Int
      <4>1. SymbolOf[p] \in Symbols
        BY MonitorAssumption
      <4>2. ticks \in SUBSET accepted
        <5>1. Pruned(m, SymbolOf[p])
          BY <1>1, <4>1, ReplayFacts
        <5>2. journal[SymbolOf[p]] \subseteq accepted
          BY <4>1 DEF MonitorInv, JournalSound
        <5> QED BY <5>1, <5>2 DEF Pruned
      <4>3. ticks # {} => t \in ticks
        BY <4>2, LatestFacts
      <4> QED BY <4>2, <4>3 DEF MonitorInv, TicksSound, Ticks
    <3>4. NoSlots["protective"] = NoSlot
      BY DEF NoSlots, Kinds
    <3> HIDE DEF r, t, ticks
    <3> QED BY <3>1, <3>2, <3>3, <3>4 DEF Observed
  <2>3. slots' = [p \in Positions |-> slots'[p]]
    BY <2>1 DEF AfterPulse
  <2> QED BY <2>2, <2>3
<1> QED BY <1>1, <1>4, <1>5, <1>6 DEF item
---------------------------------------------------------------------------
(* The queue                                                               *)

LEMMA TailOK ==
  ASSUME NEW q, QueueOK(q), q # <<>>
  PROVE  QueueOK(Tail(q))
<1>1. q \in Seq(Items)
  BY DEF QueueOK
<1>2. Tail(q) \in Seq(Items) /\ Len(Tail(q)) = Len(q) - 1
      /\ \A i \in 1 .. Len(Tail(q)) : Tail(q)[i] = q[i + 1]
  BY <1>1
<1>3. \A i \in DOMAIN Tail(q) : i \in Nat /\ i + 1 \in DOMAIN q /\ Tail(q)[i] = q[i + 1]
  BY <1>1, <1>2
<1>4. ASSUME NEW i \in DOMAIN Tail(q), NEW j \in DOMAIN Tail(q),
             Tail(q)[i].kind = Tail(q)[j].kind, Tail(q)[i].kind \in Wakeups
      PROVE  i = j
  <2>1. i + 1 = j + 1
    BY <1>3, <1>4 DEF QueueOK
  <2> QED BY <1>3, <2>1
<1> QED BY <1>2, <1>4 DEF QueueOK

LEMMA AppendOK ==
  ASSUME NEW q, QueueOK(q), NEW item \in Items,
         item.kind \in Wakeups => \A i \in DOMAIN q : q[i].kind # item.kind
  PROVE  QueueOK(Append(q, item))
<1> DEFINE a == Append(q, item)
<1>1. q \in Seq(Items)
  BY DEF QueueOK
<1>2. a \in Seq(Items) /\ Len(a) = Len(q) + 1 /\ a[Len(q) + 1] = item
      /\ \A i \in 1 .. Len(q) : a[i] = q[i]
  BY <1>1, AppendProperties
<1>3. DOMAIN q = 1 .. Len(q) /\ DOMAIN a = 1 .. Len(q) + 1 /\ Len(q) \in Nat
  BY <1>1, <1>2
<1> HIDE DEF a
<1>4. ASSUME NEW i \in DOMAIN a, NEW j \in DOMAIN a,
             a[i].kind = a[j].kind, a[i].kind \in Wakeups
      PROVE  i = j
  <2>1. \A k \in DOMAIN a : \/ k \in DOMAIN q /\ a[k] = q[k]
                            \/ k = Len(q) + 1 /\ a[k] = item
    BY <1>2, <1>3
  <2>2. CASE i \in DOMAIN q /\ a[i] = q[i]
    BY <1>4, <2>1, <2>2 DEF QueueOK
  <2>3. CASE i = Len(q) + 1 /\ a[i] = item
    BY <1>4, <2>1, <2>3
  <2> QED BY <2>1, <2>2, <2>3
<1> QED BY <1>2, <1>4 DEF QueueOK, a

LEMMA EnqueuedOK ==
  ASSUME MonitorInv, NEW kind \in Wakeups, NEW n \in Nat
  PROVE  QueueOK(Enqueued(kind, n))
<1>1. QueueOK(queue)
  BY DEF MonitorInv, QueueSound
<1>2. CASE Queued(kind) # {}
  BY <1>1, <1>2 DEF Enqueued
<1>3. CASE Queued(kind) = {}
  <2> DEFINE item == [kind |-> kind, seq |-> n]
  <2>1. item \in Items /\ item.kind = kind
    BY DEF Items
  <2>2. \A i \in DOMAIN queue : queue[i].kind # kind
    BY <1>3 DEF Queued
  <2>3. QueueOK(Append(queue, item))
    <3> HIDE DEF item
    <3> QED BY <1>1, <2>1, <2>2, AppendOK
  <2> QED BY <1>3, <2>3 DEF Enqueued
<1> QED BY <1>2, <1>3

LEMMA QueueStep ==
  ASSUME MonitorInv, [Next]_vars
  PROVE  QueueSound'
<1>0. seq \in Nat /\ seq + 1 \in Nat
  BY DEF MonitorInv, VariablesTyped
<1>1. CASE queue' = queue
  BY <1>1 DEF MonitorInv, QueueSound
<1>2. CASE Unreadable
  BY <1>2, TailOK DEF Unreadable, MonitorInv, QueueSound
<1>3. CASE Process
  <2> DEFINE m == ReplayThrough(Head(queue).seq)
             rest == Tail(queue)
             item == [kind |-> "replay", seq |-> seq]
  <2>1. queue' = Requeued(m, Head(queue).seq, rest) /\ queue # <<>>
    BY <1>3 DEF Process
  <2>2. QueueOK(rest)
    BY <2>1, TailOK DEF MonitorInv, QueueSound
  <2>3. item \in Items /\ item.kind = "replay"
    BY <1>0 DEF Items, Wakeups
  <2> HIDE DEF m, rest, item
  <2>4. QueueOK(queue')
    <3>1. CASE \A i \in DOMAIN rest : rest[i].kind # "replay"
      <4>1. QueueOK(Append(rest, item))
        BY <2>2, <2>3, <3>1, AppendOK
      <4> QED BY <2>1, <2>2, <4>1 DEF Requeued, item
    <3>2. CASE ~ \A i \in DOMAIN rest : rest[i].kind # "replay"
      BY <2>1, <2>2, <3>2 DEF Requeued
    <3> QED BY <3>1, <3>2
  <2> QED BY <2>4 DEF QueueSound
<1>4. CASE \/ queue' = Enqueued("replay", seq + 1) \/ queue' = Enqueued("replay", seq)
           \/ queue' = Enqueued("pulse", seq + 1)
  BY <1>0, <1>4, EnqueuedOK DEF QueueSound, Wakeups
<1>5. ASSUME NEW s \in Symbols, NEW c \in CandlesOf[s], Candle(s, c[1], c[2])
      PROVE  QueueSound'
  <2> DEFINE item == [kind |-> "candle", seq |-> seq + 1, symbol |-> s,
                      low |-> c[1], high |-> c[2], ts |-> now]
  <2>1. queue' = queue \/ queue' = Append(queue, item)
    BY <1>5 DEF Candle
  <2>2. c \in Int \X Int
    BY MonitorAssumption
  <2>3. item \in Items /\ item.kind \notin Wakeups
    BY <1>0, <2>2 DEF Items, Wakeups, MonitorInv, VariablesTyped
  <2> HIDE DEF item
  <2> QED BY <2>1, <2>3, AppendOK DEF MonitorInv, QueueSound
<1> QED BY <1>1, <1>2, <1>3, <1>4, <1>5
    DEF Next, Work, vars, monitorVars, envVars, EnqueuePulse, Recover, Tick, FillNotice, WindowClosed,
        PositionClosed, Open, Close, Acknowledge, Invalid, Refresh, Pass, ConsumerUnchanged,
        EnvUnchanged
---------------------------------------------------------------------------
(* What a step leaves alone                                                *)

ATick == \E s \in Symbols : \E price \in PricesOf[s], lag \in LagsOf[s] : Tick(s, price, now - lag)

Quiet ==
  /\ UNCHANGED <<journal, progress, accepted, evicted, expiredFlat, visible>>
  /\ seq' = seq \/ (seq < MaxEvents /\ seq' = seq + 1)

LEMMA QuietStep ==
  ASSUME [Next]_vars
  PROVE  Process \/ ATick \/ Quiet
<1>1. CASE Unreadable \/ EnqueuePulse \/ Recover \/ Refresh \/ Pass \/ UNCHANGED vars
  BY <1>1 DEF Quiet, Room, Unreadable, EnqueuePulse, Recover, Refresh, Pass, EnvUnchanged, vars,
              monitorVars, history
<1>2. ASSUME NEW s \in Symbols, NEW c \in CandlesOf[s], Candle(s, c[1], c[2])
      PROVE  Quiet
  BY <1>2, Zenon DEF Quiet, Candle, Room, history
<1>3. ASSUME NEW p \in Positions, FillNotice(p)
      PROVE  Quiet
  BY <1>3, Zenon DEF Quiet, FillNotice, Room, history
<1>4. ASSUME NEW p \in Positions, WindowClosed(p) \/ PositionClosed(p) \/ Open(p) \/ Close(p)
      PROVE  Quiet
  BY <1>4 DEF Quiet, WindowClosed, PositionClosed, Open, Close, ConsumerUnchanged, EnvUnchanged,
              monitorVars, history
<1>5. ASSUME NEW p \in Positions, NEW k \in Kinds, Acknowledge(p, k) \/ Invalid(p, k)
      PROVE  Quiet
  BY <1>5 DEF Quiet, Acknowledge, Invalid, ConsumerUnchanged
<1> QED BY <1>1, <1>2, <1>3, <1>4, <1>5 DEF Next, Work, ATick

(* Nothing of a position's life changes but by these.                      *)
LEMMA PositionsChange ==
  ASSUME [Next]_vars
  PROVE  \/ \E p \in Positions : Open(p) \/ Close(p)
         \/ Refresh
         \/ Pass
         \/ UNCHANGED <<stage, openedAt, held, now>>
<1>1. ASSUME Unreadable \/ Process
      PROVE  UNCHANGED <<stage, openedAt, held, now>>
  BY <1>1, Zenon DEF Unreadable, Process, envVars
<1>2. ASSUME EnqueuePulse \/ Recover \/ UNCHANGED vars
      PROVE  UNCHANGED <<stage, openedAt, held, now>>
  BY <1>2, Zenon DEF EnqueuePulse, Recover, vars, envVars
<1>3. ASSUME NEW s \in Symbols, NEW price \in PricesOf[s], NEW lag \in LagsOf[s], Tick(s, price, now - lag)
      PROVE  UNCHANGED <<stage, openedAt, held, now>>
  BY <1>3, Zenon DEF Tick, envVars
<1>4. ASSUME NEW s \in Symbols, NEW c \in CandlesOf[s], Candle(s, c[1], c[2])
      PROVE  UNCHANGED <<stage, openedAt, held, now>>
  BY <1>4, Zenon DEF Candle
<1>5. ASSUME NEW p \in Positions, FillNotice(p)
      PROVE  UNCHANGED <<stage, openedAt, held, now>>
  BY <1>5, Zenon DEF FillNotice
<1>6. ASSUME NEW p \in Positions, WindowClosed(p) \/ PositionClosed(p)
      PROVE  UNCHANGED <<stage, openedAt, held, now>>
  BY <1>6, Zenon DEF WindowClosed, PositionClosed, ConsumerUnchanged, envVars
<1>7. ASSUME NEW p \in Positions, NEW k \in Kinds, Acknowledge(p, k) \/ Invalid(p, k)
      PROVE  UNCHANGED <<stage, openedAt, held, now>>
  BY <1>7, Zenon DEF Acknowledge, Invalid, ConsumerUnchanged, envVars
<1> QED BY <1>1, <1>2, <1>3, <1>4, <1>5, <1>6, <1>7, Zenon DEF Next, Work, ATick

(* No slot changes but by these.                                           *)
LEMMA SlotsChange ==
  ASSUME [Next]_vars
  PROVE  \/ Process
         \/ \E p \in Positions : \/ WindowClosed(p) \/ PositionClosed(p)
                                 \/ \E k \in Kinds : Acknowledge(p, k) \/ Invalid(p, k)
         \/ UNCHANGED <<slots, closed, invalid, tickFloor>>
<1>1. ASSUME Unreadable
      PROVE  UNCHANGED <<slots, closed, invalid, tickFloor>>
  BY <1>1, Zenon DEF Unreadable, history
<1>2. ASSUME EnqueuePulse \/ Recover \/ UNCHANGED vars
      PROVE  UNCHANGED <<slots, closed, invalid, tickFloor>>
  BY <1>2, Zenon DEF EnqueuePulse, Recover, vars, monitorVars, history
<1>3. ASSUME NEW s \in Symbols, NEW price \in PricesOf[s], NEW lag \in LagsOf[s], Tick(s, price, now - lag)
      PROVE  UNCHANGED <<slots, closed, invalid, tickFloor>>
  BY <1>3, Zenon DEF Tick
<1>4. ASSUME NEW s \in Symbols, NEW c \in CandlesOf[s], Candle(s, c[1], c[2])
      PROVE  UNCHANGED <<slots, closed, invalid, tickFloor>>
  BY <1>4, Zenon DEF Candle, history
<1>5. ASSUME NEW p \in Positions, FillNotice(p)
      PROVE  UNCHANGED <<slots, closed, invalid, tickFloor>>
  BY <1>5, Zenon DEF FillNotice, history
<1>6. ASSUME NEW p \in Positions, Open(p) \/ Close(p)
      PROVE  UNCHANGED <<slots, closed, invalid, tickFloor>>
  BY <1>6, Zenon DEF Open, Close, EnvUnchanged, monitorVars, history
<1>7. ASSUME Refresh \/ Pass
      PROVE  UNCHANGED <<slots, closed, invalid, tickFloor>>
  BY <1>7, Zenon DEF Refresh, Pass, EnvUnchanged, monitorVars, history
<1> QED BY <1>1, <1>2, <1>3, <1>4, <1>5, <1>6, <1>7, Zenon DEF Next, Work, ATick

LEMMA MarkersChange ==
  ASSUME [Next]_vars
  PROVE  \/ Process
         \/ ATick /\ UNCHANGED fillPending
         \/ \E p \in Positions : FillNotice(p)
         \/ UNCHANGED <<fillPending, lost>>
<1>1. ASSUME Unreadable
      PROVE  UNCHANGED <<fillPending, lost>>
  BY <1>1, Zenon DEF Unreadable
<1>2. ASSUME EnqueuePulse \/ Recover \/ UNCHANGED vars
      PROVE  UNCHANGED <<fillPending, lost>>
  BY <1>2, Zenon DEF EnqueuePulse, Recover, vars, monitorVars
<1>3. ASSUME NEW s \in Symbols, NEW c \in CandlesOf[s], Candle(s, c[1], c[2])
      PROVE  UNCHANGED <<fillPending, lost>>
  BY <1>3, Zenon DEF Candle
<1>4. ASSUME NEW p \in Positions, Open(p) \/ Close(p)
      PROVE  UNCHANGED <<fillPending, lost>>
  BY <1>4, Zenon DEF Open, Close, EnvUnchanged, monitorVars
<1>5. ASSUME NEW p \in Positions, WindowClosed(p) \/ PositionClosed(p)
      PROVE  UNCHANGED <<fillPending, lost>>
  BY <1>5, Zenon DEF WindowClosed, PositionClosed, ConsumerUnchanged
<1>6. ASSUME NEW p \in Positions, NEW k \in Kinds, Acknowledge(p, k) \/ Invalid(p, k)
      PROVE  UNCHANGED <<fillPending, lost>>
  BY <1>6, Zenon DEF Acknowledge, Invalid, ConsumerUnchanged
<1>7. ASSUME Refresh \/ Pass
      PROVE  UNCHANGED <<fillPending, lost>>
  BY <1>7, Zenon DEF Refresh, Pass, EnvUnchanged, monitorVars
<1>8. ATick => UNCHANGED fillPending
  BY Zenon DEF ATick, Tick
<1> QED BY <1>1, <1>2, <1>3, <1>4, <1>5, <1>6, <1>7, <1>8, Zenon DEF Next, Work, ATick

---------------------------------------------------------------------------
(* The types                                                               *)

LEMMA ProcessHead ==
  ASSUME MonitorInv, Process
  PROVE  queue # <<>> /\ Head(queue) \in Items /\ Head(queue).seq \in Nat
<1>1. queue # <<>> /\ queue \in Seq(Items)
  BY DEF Process, MonitorInv, QueueSound, QueueOK
<1>2. Head(queue) \in Items
  BY <1>1
<1> QED BY <1>1, <1>2 DEF Items, Wakeups

(* What processing makes of what the monitor knows beside slots and ticks. *)
LEMMA ProcessKnows ==
  ASSUME MonitorInv, Process
  PROVE  /\ visible' = held /\ closed' = closed \ Gone
         /\ fillPending' = [s \in Symbols |->
              IF \E p \in held : SymbolOf[p] = s THEN NoTime ELSE fillPending[s]]
         /\ tickFloor' = [p \in Positions |-> IF p \in visible \ held THEN NoTime ELSE tickFloor[p]]
<1>1. PICK m \in {ReplayThrough(Head(queue).seq)} :
        visible' = m.visible /\ closed' = m.closed /\ fillPending' = m.fillPending
  BY Zenon DEF Process
<1>2. m = ReplayThrough(Head(queue).seq) /\ Head(queue).seq \in Nat
  BY <1>1, ProcessHead
<1>3. tickFloor' = [p \in Positions |-> IF p \in visible \ held THEN NoTime ELSE tickFloor[p]]
  BY Zenon DEF Process
<1> QED BY <1>1, <1>2, <1>3, ReplayFacts

LEMMA VariablesStep ==
  ASSUME MonitorInv, [Next]_vars
  PROVE  VariablesTyped'
<1> USE DEF VariablesTyped
<1>0. VariablesTyped
  BY DEF MonitorInv
<1>1. seq' \in 0 .. MaxEvents
  <2>1. CASE Process
    BY <1>0, <2>1 DEF Process
  <2>2. CASE ATick
    BY <1>0, <2>2, MonitorAssumption DEF ATick, Tick, Room
  <2> QED BY <1>0, <2>1, <2>2, QuietStep, MonitorAssumption DEF Quiet
<1>2. visible' \subseteq Positions
  <2>1. CASE Process
    <3>1. visible' = held
      BY <2>1, ProcessKnows
    <3> QED BY <1>0, <3>1
  <2>2. CASE ATick
    BY <1>0, <2>2 DEF ATick, Tick
  <2> QED BY <1>0, <2>1, <2>2, QuietStep DEF Quiet
<1>3. closed' \subseteq Positions /\ tickFloor' \in [Positions -> Int]
  <2>1. CASE Process
    <3>1. closed' = closed \ Gone
      BY <2>1, ProcessKnows
    <3>2. tickFloor' \in [Positions -> Int]
      BY <1>0, <2>1, ProcessKnows DEF NoTime
    <3> QED BY <1>0, <3>1, <3>2
  <2>2. ASSUME NEW p \in Positions, WindowClosed(p) \/ PositionClosed(p)
        PROVE  closed' \subseteq Positions /\ tickFloor' \in [Positions -> Int]
    BY <1>0, <2>2 DEF WindowClosed, PositionClosed
  <2>3. ASSUME NEW p \in Positions, NEW k \in Kinds, Acknowledge(p, k) \/ Invalid(p, k)
        PROVE  closed' \subseteq Positions /\ tickFloor' \in [Positions -> Int]
    <3>1. slots[p][k].ts \in Int
      BY DEF MonitorInv, SlotsTyped, SlotsOK, SlotRecords
    <3>2. \/ tickFloor' = tickFloor
          \/ k = "eod" /\ tickFloor' = [tickFloor EXCEPT ![p] = slots[p][k].ts]
      BY <2>3 DEF Acknowledge, Invalid
    <3>3. closed' = closed
      BY <2>3 DEF Acknowledge, Invalid
    <3> QED BY <1>0, <3>1, <3>2, <3>3
  <2> QED BY <1>0, <2>1, <2>2, <2>3, SlotsChange
<1>4. /\ now' \in Nat /\ held' \subseteq Positions
      /\ stage' \in [Positions -> {"none", "open", "closed"}] /\ openedAt' \in [Positions -> Int]
  <2>1. ASSUME NEW p \in Positions, Open(p) \/ Close(p)
        PROVE  /\ now' \in Nat /\ held' \subseteq Positions
               /\ stage' \in [Positions -> {"none", "open", "closed"}]
               /\ openedAt' \in [Positions -> Int]
    BY <1>0, <2>1 DEF Open, Close
  <2>2. CASE Refresh
    BY <1>0, <2>2 DEF Refresh
  <2>3. CASE Pass
    BY <1>0, <2>3 DEF Pass
  <2> QED BY <1>0, <2>1, <2>2, <2>3, PositionsChange
<1> QED BY <1>1, <1>2, <1>3, <1>4

LEMMA TicksStep ==
  ASSUME MonitorInv, [Next]_vars
  PROVE  TicksSound'
<1>0. /\ VariablesTyped /\ TicksSound
      /\ seq \in Nat /\ now \in Nat
  BY DEF MonitorInv, VariablesTyped
<1>1. CASE Process
  <2> DEFINE m == ReplayThrough(Head(queue).seq)
  <2>1. /\ seq' = seq /\ accepted' = accepted /\ now' = now /\ progress' = m.progress
    BY <1>1 DEF Process, envVars
  <2>2. \A p \in Positions : Replayed(m, p, Head(queue).seq)
    BY <1>1, ProcessHead, ReplayFacts
  <2>3. m.progress = [p \in Positions |-> m.progress[p]]
    BY <1>1, ProcessHead, ReplayFacts
  <2> HIDE DEF m
  <2>4. ASSUME NEW p \in Positions
        PROVE  m.progress[p] \in 0 .. seq
    <3>1. progress[p] \in 0 .. seq
      BY <1>0 DEF TicksSound
    <3>2. \A t \in Touching(p, Head(queue).seq) : t.seq \in 0 .. seq
      BY <1>0, MonitorAssumption DEF Touching, MonitorInv, JournalSound, TicksSound
    <3>3. 0 \in 0 .. seq
      BY <1>0
    <3> QED BY <2>2, <3>1, <3>2, <3>3 DEF Replayed
  <2>5. progress' \in [Positions -> 0 .. seq]
    BY <2>1, <2>3, <2>4
  <2> QED BY <1>0, <2>1, <2>5 DEF TicksSound
<1>2. ASSUME NEW s \in Symbols, NEW price \in PricesOf[s], NEW lag \in LagsOf[s],
             Tick(s, price, now - lag)
      PROVE  TicksSound'
  <2> DEFINE tick == [symbol |-> s, price |-> price, ts |-> now - lag, seq |-> seq + 1, arrived |-> now]
  <2>1. /\ accepted' = accepted \cup {tick} /\ seq' = seq + 1
        /\ progress' = progress /\ now' = now
    BY <1>2 DEF Tick, envVars
  <2>2. price \in Int /\ lag \in Nat
    BY MonitorAssumption
  <2>3. /\ tick \in Ticks /\ tick.seq \in 1 .. seq + 1 /\ tick.ts <= tick.arrived /\ tick.arrived <= now
    BY <1>0, <2>2 DEF Ticks
  <2> HIDE DEF tick
  <2>4. \A n \in 0 .. seq : n \in 0 .. seq + 1
    BY <1>0
  <2>5. progress' \in [Positions -> 0 .. seq + 1]
    BY <1>0, <2>1, <2>4 DEF TicksSound
  <2>6. \A t \in accepted : t.seq \in 1 .. seq + 1 /\ t.ts <= t.arrived /\ t.arrived <= now
    BY <1>0 DEF TicksSound
  <2> QED BY <1>0, <2>1, <2>3, <2>5, <2>6 DEF TicksSound
<1>3. CASE /\ UNCHANGED <<accepted, progress>>
           /\ seq' = seq \/ (seq < MaxEvents /\ seq' = seq + 1)
  <2>1. now' = now \/ now' = now + 1
    <3>1. ASSUME NEW p \in Positions, Open(p) \/ Close(p)
          PROVE  now' = now
      BY <3>1 DEF Open, Close
    <3> QED BY <3>1, PositionsChange DEF Refresh, Pass
  <2>2. \A n \in 0 .. seq : n \in 0 .. seq'
    BY <1>0, <1>3
  <2>3. progress' \in [Positions -> 0 .. seq']
    BY <1>0, <1>3, <2>2 DEF TicksSound
  <2>4. \A t \in accepted : t.seq \in 1 .. seq' /\ t.ts <= t.arrived /\ t.arrived <= now'
    BY <1>0, <1>3, <2>1 DEF TicksSound, Ticks
  <2> QED BY <1>0, <1>3, <2>3, <2>4 DEF TicksSound
<1> QED BY <1>1, <1>2, <1>3, QuietStep DEF ATick, Quiet

LEMMA LossStep ==
  ASSUME MonitorInv, [Next]_vars
  PROVE  LossTold'
<1>0. evicted \cup expiredFlat # {} => lost
  BY DEF MonitorInv, LossTold
<1>1. CASE Process
  <2> DEFINE m == ReplayThrough(Head(queue).seq)
             flat == {s \in {s \in Symbols : journal[s] # m.journal[s]} :
                        \A p \in held : SymbolOf[p] # s}
             out == UNION {journal[s] \ m.journal[s] : s \in flat}
  <2>1. lost' = (lost \/ flat # {}) /\ expiredFlat' = expiredFlat \cup out /\ evicted' = evicted
    BY <1>1 DEF Process
  <2>2. flat = {} => out = {}
    OBVIOUS
  <2> HIDE DEF flat, out
  <2> QED BY <1>0, <2>1, <2>2 DEF LossTold
<1>2. ASSUME NEW s \in Symbols, NEW price \in PricesOf[s], NEW lag \in LagsOf[s],
             Tick(s, price, now - lag)
      PROVE  LossTold'
  <2>1. PICK out : lost' = (lost \/ out # {}) /\ evicted' = evicted \cup out
    BY <1>2, Zenon DEF Tick
  <2>2. expiredFlat' = expiredFlat
    BY <1>2 DEF Tick
  <2> QED BY <1>0, <2>1, <2>2 DEF LossTold
<1>3. CASE UNCHANGED <<evicted, expiredFlat>>
  <2>1. lost => lost'
    <3>1. ASSUME NEW p \in Positions, FillNotice(p)
          PROVE  lost => lost'
      BY <3>1, Zenon DEF FillNotice
    <3>2. CASE UNCHANGED lost
      BY <3>2
    <3>3. CASE Process
      <4>1. PICK flat : lost' = (lost \/ flat # {})
        BY <3>3, Zenon DEF Process
      <4> QED BY <4>1
    <3>4. ASSUME NEW s \in Symbols, NEW price \in PricesOf[s], NEW lag \in LagsOf[s],
                 Tick(s, price, now - lag)
          PROVE  lost => lost'
      <4>1. PICK out : lost' = (lost \/ out # {}) /\ evicted' = evicted \cup out
        BY <3>4, Zenon DEF Tick
      <4> QED BY <4>1
    <3> QED BY <3>1, <3>2, <3>3, <3>4, MarkersChange DEF ATick
  <2> QED BY <1>0, <1>3, <2>1 DEF LossTold
<1> QED BY <1>1, <1>2, <1>3, QuietStep DEF ATick, Quiet
---------------------------------------------------------------------------
(* The slots                                                               *)

LEMMA NoSlotsOK == SlotsOK(NoSlots) /\ NoSlots["protective"] = NoSlot /\ NoSlots["eod"] = NoSlot
BY DEF SlotsOK, NoSlots, NoSlot, NoTime, SlotRecords, SlotStates, Reasons, Kinds

LEMMA PendingOK ==
  ASSUME NEW f, SlotsOK(f), NEW k \in Kinds, NEW r \in Reasons, NEW ts \in Int
  PROVE  /\ SlotsOK([f EXCEPT ![k] = Pending(r, ts)])
         /\ Pending(r, ts) # NoSlot
<1>1. Pending(r, ts) \in SlotRecords /\ Pending(r, ts).state = "pending" /\ Pending(r, ts) # NoSlot
  BY DEF Pending, NoSlot, SlotRecords, SlotStates
<1>2. f \in [Kinds -> SlotRecords] /\ \A l \in Kinds : f[l].state = "none" => f[l] = NoSlot
  BY DEF SlotsOK
<1> DEFINE g == [f EXCEPT ![k] = Pending(r, ts)]
<1>3. g \in [Kinds -> SlotRecords] /\ \A l \in Kinds : g[l] = IF l = k THEN Pending(r, ts) ELSE f[l]
  BY <1>1, <1>2
<1> HIDE DEF g
<1>4. \A l \in Kinds : g[l].state = "none" => g[l] = NoSlot
  BY <1>1, <1>2, <1>3
<1> QED BY <1>1, <1>3, <1>4 DEF SlotsOK, g

(* The slots a replay gives, with the observation it may have found.       *)
LEMMA ReplayedSlots ==
  ASSUME MonitorInv, NEW b \in Nat, NEW m, m = ReplayThrough(b), NEW p \in Positions
  PROVE  /\ SlotsOK(m.slots[p])
         /\ \/ p \in Gone /\ m.slots[p] = NoSlots
            \/ p \notin Gone /\ m.slots[p] = slots[p]
            \/ /\ p \notin Gone /\ Observable(p)
               /\ \E r \in {"stop", "target"}, ts \in Int :
                    m.slots[p] = [slots[p] EXCEPT !["protective"] = Pending(r, ts)]
<1>1. Replayed(m, p, b)
  BY ReplayFacts
<1>2. SlotsOK(slots[p])
  BY DEF MonitorInv, SlotsTyped
<1>3. Observable(p) => p \notin Gone
  BY DEF Observable, Gone
<1>4. ASSUME NEW t \in Touching(p, b)
      PROVE  \E r \in {"stop", "target"}, ts \in Int :
               Touched(p, t) = [slots[p] EXCEPT !["protective"] = Pending(r, ts)]
  <2>1. t.ts \in Int
    BY MonitorAssumption DEF Touching, MonitorInv, JournalSound, TicksSound, Ticks
  <2>2. Evaluate(p, t.price, t.price) \in {"stop", "target"}
    BY EvaluateReasons DEF Touching, Touches
  <2> QED BY <2>1, <2>2 DEF Touched
<1>5. \/ p \in Gone /\ m.slots[p] = NoSlots
      \/ p \notin Gone /\ m.slots[p] = slots[p]
      \/ /\ p \notin Gone /\ Observable(p)
         /\ \E r \in {"stop", "target"}, ts \in Int :
              m.slots[p] = [slots[p] EXCEPT !["protective"] = Pending(r, ts)]
  BY <1>1, <1>3, <1>4 DEF Replayed
<1>6. \A r \in {"stop", "target"}, ts \in Int :
        SlotsOK([slots[p] EXCEPT !["protective"] = Pending(r, ts)])
  BY <1>2, PendingOK DEF Reasons, Kinds
<1> QED BY <1>2, <1>5, <1>6, NoSlotsOK

LEMMA SlotsStep ==
  ASSUME MonitorInv, [Next]_vars
  PROVE  SlotsTyped'
<1>0. slots = [p \in Positions |-> slots[p]] /\ \A p \in Positions : SlotsOK(slots[p])
  BY DEF MonitorInv, SlotsTyped
<1>1. CASE Process
  <2> DEFINE m == ReplayThrough(Head(queue).seq)
  <2>1. slots' = [p \in Positions |-> slots'[p]] /\ \A p \in Positions : Observed(m, p)
    BY <1>1, ProcessSlots
  <2>2. \A p \in Positions : SlotsOK(m.slots[p])
    BY <1>1, ProcessHead, ReplayedSlots
  <2> HIDE DEF m
  <2>3. ASSUME NEW p \in Positions
        PROVE  SlotsOK(slots'[p])
    <3>1. \A k \in Kinds, r \in Reasons, ts \in Int :
            SlotsOK([m.slots[p] EXCEPT ![k] = Pending(r, ts)])
      BY <2>2, PendingOK
    <3> QED BY <2>1, <2>2, <3>1 DEF Observed, Kinds, Reasons
  <2> QED BY <2>1, <2>3 DEF SlotsTyped
<1>2. ASSUME NEW p \in Positions, NEW f, SlotsOK(f), slots' = [slots EXCEPT ![p] = f]
      PROVE  SlotsTyped'
  BY <1>0, <1>2 DEF SlotsTyped
<1>3. ASSUME NEW p \in Positions, NEW k \in Kinds, NEW st \in SlotStates \ {"none"}
      PROVE  SlotsOK([slots[p] EXCEPT ![k].state = st])
  <2>1. SlotsOK(slots[p])
    BY <1>0
  <2> DEFINE f == slots[p]
             g == [f EXCEPT ![k].state = st]
  <2>2. f \in [Kinds -> SlotRecords] /\ \A l \in Kinds : f[l].state = "none" => f[l] = NoSlot
    BY <2>1 DEF SlotsOK
  <2> HIDE DEF f
  <2>3. g \in [Kinds -> SlotRecords] /\ g[k].state = st /\ \A l \in Kinds \ {k} : g[l] = f[l]
    BY <2>2 DEF SlotRecords
  <2> HIDE DEF g
  <2>4. SlotsOK(g)
    BY <2>2, <2>3 DEF SlotsOK
  <2> QED BY <2>4 DEF f, g
<1>4. ASSUME NEW p \in Positions, WindowClosed(p)
      PROVE  SlotsTyped'
  <2>1. slots' = [slots EXCEPT ![p] = [slots[p] EXCEPT !["eod"].state = "expired"]]
    BY <1>4 DEF WindowClosed
  <2> QED BY <1>2, <1>3, <2>1 DEF Kinds, SlotStates
<1>5. ASSUME NEW p \in Positions, PositionClosed(p)
      PROVE  SlotsTyped'
  BY <1>2, <1>5, NoSlotsOK DEF PositionClosed
<1>6. ASSUME NEW p \in Positions, NEW k \in Kinds, Acknowledge(p, k)
      PROVE  SlotsTyped'
  <2>1. slots' = [slots EXCEPT ![p] = [slots[p] EXCEPT ![k].state = "acknowledged"]]
    BY <1>6 DEF Acknowledge
  <2> QED BY <1>2, <1>3, <2>1 DEF SlotStates
<1>7. ASSUME NEW p \in Positions, NEW k \in Kinds, Invalid(p, k)
      PROVE  SlotsTyped'
  <2> DEFINE f == [slots[p] EXCEPT ![k] = NoSlot]
  <2>1. slots' = [slots EXCEPT ![p] = f]
    BY <1>7 DEF Invalid
  <2>2. SlotsOK(slots[p]) /\ NoSlot \in SlotRecords
    BY <1>0 DEF NoSlot, NoTime, SlotRecords, SlotStates, Reasons
  <2>3. SlotsOK(f)
    BY <2>2 DEF SlotsOK
  <2> HIDE DEF f
  <2> QED BY <1>2, <2>1, <2>3
<1>8. CASE UNCHANGED slots
  BY <1>0, <1>8 DEF SlotsTyped
<1> QED BY <1>1, <1>4, <1>5, <1>6, <1>7, <1>8, SlotsChange
---------------------------------------------------------------------------
(* The journal and its limits                                              *)

(* What a tick of s does to the journal: over is what its symbol gives up, *)
(* victims the symbols given up for it.                                    *)
Journaled(s, tick, over, victims) ==
  /\ journal' = [u \in Symbols |->
       IF u \in victims THEN {}
       ELSE IF u = s THEN (journal[s] \ over) \cup {tick} ELSE journal[u]]
  /\ accepted' = accepted \cup {tick}
  /\ \/ over = {} /\ ~(Cardinality(journal[s]) >= MaxTicksPerSymbol)
     \/ over = {First(journal[s])} /\ Cardinality(journal[s]) >= MaxTicksPerSymbol
  /\ \/ victims = {} /\ (s \in Used \/ ~(Cardinality(Used) >= MaxSymbols))
     \/ \E v \in Used \ {s} : victims = {v}
  /\ evicted' = evicted \cup over \cup UNION {journal[v] : v \in victims}

LEMMA TickFacts ==
  ASSUME NEW s \in Symbols, NEW price, NEW ts, Tick(s, price, ts), NEW tick,
         tick = [symbol |-> s, price |-> price, ts |-> ts, seq |-> seq + 1, arrived |-> now]
  PROVE  \E over, victims : Journaled(s, tick, over, victims)
<1> DEFINE over == IF Cardinality(journal[s]) >= MaxTicksPerSymbol THEN {First(journal[s])} ELSE {}
           unowed == {u \in Used : \A t \in journal[u] : ~Owed(Now, u, t)}
           full == s \notin Used /\ Cardinality(Used) >= MaxSymbols
           rec == [symbol |-> s, price |-> price, ts |-> ts, seq |-> seq + 1, arrived |-> now]
<1>1. PICK victims \in IF ~full THEN {{}}
                       ELSE {{v} : v \in IF unowed # {} THEN unowed ELSE Used} :
        /\ journal' = [u \in Symbols |->
             IF u \in victims THEN {}
             ELSE IF u = s THEN (journal[s] \ over) \cup {rec} ELSE journal[u]]
        /\ evicted' = evicted \cup (over \cup UNION {journal[v] : v \in victims})
        /\ accepted' = accepted \cup {rec}
  BY Zenon DEF Tick, Used
<1>2. \/ victims = {} /\ (s \in Used \/ ~(Cardinality(Used) >= MaxSymbols))
      \/ \E v \in Used \ {s} : victims = {v}
  <2> HIDE DEF Used
  <2>1. unowed \subseteq Used
    OBVIOUS
  <2> HIDE DEF unowed
  <2> QED BY <1>1, <2>1
<1>3. \/ over = {} /\ ~(Cardinality(journal[s]) >= MaxTicksPerSymbol)
      \/ over = {First(journal[s])} /\ Cardinality(journal[s]) >= MaxTicksPerSymbol
  OBVIOUS
<1> HIDE DEF over, rec
<1>4. evicted' = evicted \cup over \cup UNION {journal[v] : v \in victims}
  BY <1>1
<1>5. tick = rec
  BY DEF rec
<1> QED BY <1>1, <1>2, <1>3, <1>4, <1>5 DEF Journaled

(* A set that loses a member has room for another.                         *)
LEMMA Exchange ==
  ASSUME NEW S, IsFiniteSet(S), NEW x \in S, NEW y
  PROVE  /\ IsFiniteSet((S \ {x}) \cup {y})
         /\ Cardinality((S \ {x}) \cup {y}) <= Cardinality(S)
<1> DEFINE T == S \ {x}
<1>1. IsFiniteSet(T) /\ Cardinality(T) = Cardinality(S) - 1
  BY FS_RemoveElement
<1>2. Cardinality(S) \in Nat /\ Cardinality(T) \in Nat
  BY <1>1, FS_CardinalityType
<1> HIDE DEF T
<1>3. IsFiniteSet(T \cup {y})
      /\ Cardinality(T \cup {y}) = IF y \in T THEN Cardinality(T) ELSE Cardinality(T) + 1
  BY <1>1, FS_AddElement
<1>4. IsFiniteSet(T \cup {y}) /\ Cardinality(T \cup {y}) <= Cardinality(S)
  BY <1>1, <1>2, <1>3
<1> QED BY <1>4 DEF T

LEMMA AddWithin ==
  ASSUME NEW S, IsFiniteSet(S), NEW n \in Nat, ~(Cardinality(S) >= n), NEW y
  PROVE  IsFiniteSet(S \cup {y}) /\ Cardinality(S \cup {y}) <= n
<1>1. Cardinality(S) \in Nat
  BY FS_CardinalityType
<1>2. IsFiniteSet(S \cup {y})
      /\ Cardinality(S \cup {y}) = IF y \in S THEN Cardinality(S) ELSE Cardinality(S) + 1
  BY FS_AddElement
<1> QED BY <1>1, <1>2

LEMMA WithinSubset ==
  ASSUME NEW S, IsFiniteSet(S), NEW n \in Nat, Cardinality(S) <= n, NEW T \in SUBSET S
  PROVE  IsFiniteSet(T) /\ Cardinality(T) <= n
<1>1. IsFiniteSet(T) /\ Cardinality(T) <= Cardinality(S)
  BY FS_Subset
<1>2. Cardinality(S) \in Nat /\ Cardinality(T) \in Nat
  BY <1>1, FS_CardinalityType
<1> QED BY <1>1, <1>2

LEMMA TickJournal ==
  ASSUME MonitorInv, NEW s \in Symbols, NEW tick, tick.symbol = s, NEW over, NEW victims,
         Journaled(s, tick, over, victims)
  PROVE  JournalSound'
<1>0. /\ journal \in [Symbols -> SUBSET accepted]
      /\ \A u \in Symbols : /\ IsFiniteSet(journal[u])
                            /\ Cardinality(journal[u]) <= MaxTicksPerSymbol
                            /\ \A t \in journal[u] : t.symbol = u
      /\ IsFiniteSet(Used) /\ Cardinality(Used) <= MaxSymbols
      /\ MaxTicksPerSymbol \in Nat \ {0} /\ MaxSymbols \in Nat \ {0}
  BY MonitorAssumption DEF MonitorInv, JournalSound
<1> DEFINE kept == (journal[s] \ over) \cup {tick}
<1>1. /\ journal' = [u \in Symbols |-> IF u \in victims THEN {} ELSE IF u = s THEN kept ELSE journal[u]]
      /\ accepted' = accepted \cup {tick}
  BY DEF Journaled
<1>2. kept \subseteq accepted' /\ \A t \in kept : t.symbol = s
  BY <1>0, <1>1
<1>3. IsFiniteSet(kept) /\ Cardinality(kept) <= MaxTicksPerSymbol
  <2>1. CASE over = {} /\ ~(Cardinality(journal[s]) >= MaxTicksPerSymbol)
    <3>1. kept = journal[s] \cup {tick}
      BY <2>1
    <3> HIDE DEF kept
    <3> QED BY <1>0, <2>1, <3>1, AddWithin
  <2>2. CASE over = {First(journal[s])} /\ Cardinality(journal[s]) >= MaxTicksPerSymbol
    <3>1. journal[s] # {}
      BY <1>0, <2>2, FS_EmptySet
    <3>2. journal[s] \in SUBSET Ticks
      BY <1>0 DEF MonitorInv, TicksSound
    <3>3. First(journal[s]) \in journal[s]
      BY <3>1, <3>2, FirstFacts
    <3> DEFINE J == journal[s]
               x == First(journal[s])
    <3>4. kept = (J \ {x}) \cup {tick}
      BY <2>2
    <3>5. IsFiniteSet(J) /\ x \in J /\ Cardinality(J) <= MaxTicksPerSymbol
      BY <1>0, <3>3
    <3> HIDE DEF kept, J, x
    <3>6. IsFiniteSet(kept) /\ Cardinality(kept) <= Cardinality(J)
      BY <3>4, <3>5, Exchange
    <3>7. Cardinality(J) \in Nat /\ Cardinality(kept) \in Nat
      BY <3>5, <3>6, FS_CardinalityType
    <3> QED BY <1>0, <3>5, <3>6, <3>7
  <2> QED BY <2>1, <2>2 DEF Journaled
<1> HIDE DEF kept
<1>4. \A u \in Symbols :
        /\ journal'[u] \subseteq accepted'
        /\ IsFiniteSet(journal'[u]) /\ Cardinality(journal'[u]) <= MaxTicksPerSymbol
        /\ \A t \in journal'[u] : t.symbol = u
  <2> SUFFICES ASSUME NEW u \in Symbols
               PROVE  /\ journal'[u] \subseteq accepted'
                      /\ IsFiniteSet(journal'[u]) /\ Cardinality(journal'[u]) <= MaxTicksPerSymbol
                      /\ \A t \in journal'[u] : t.symbol = u
    OBVIOUS
  <2>1. journal'[u] = IF u \in victims THEN {} ELSE IF u = s THEN kept ELSE journal[u]
    BY <1>1
  <2>2. IsFiniteSet({}) /\ Cardinality({}) <= MaxTicksPerSymbol
    BY <1>0, FS_EmptySet
  <2>3. journal[u] \subseteq accepted'
    BY <1>0, <1>1
  <2> QED BY <1>0, <1>2, <1>3, <2>1, <2>2, <2>3
<1>5. IsFiniteSet(Used') /\ Cardinality(Used') <= MaxSymbols
  <2>1. Used' \subseteq (Used \ victims) \cup {s}
    BY <1>1 DEF Used
  <2>2. CASE victims = {} /\ s \in Used
    <3>1. Used' \in SUBSET Used
      BY <2>1, <2>2
    <3> QED BY <1>0, <3>1, WithinSubset
  <2>3. CASE victims = {} /\ ~(Cardinality(Used) >= MaxSymbols)
    <3> DEFINE W == Used \cup {s}
    <3>1. Used' \in SUBSET W
      BY <2>1, <2>3
    <3>2. IsFiniteSet(W) /\ Cardinality(W) <= MaxSymbols
      BY <1>0, <2>3, AddWithin
    <3> HIDE DEF W
    <3> QED BY <1>0, <3>1, <3>2, WithinSubset
  <2>4. ASSUME NEW v \in Used \ {s}, victims = {v}
        PROVE  IsFiniteSet(Used') /\ Cardinality(Used') <= MaxSymbols
    <3> DEFINE W == (Used \ {v}) \cup {s}
    <3>1. Used' \in SUBSET W
      BY <2>1, <2>4
    <3>2. IsFiniteSet(W) /\ Cardinality(W) <= Cardinality(Used)
      BY <1>0, <2>4, Exchange
    <3>3. Cardinality(Used) \in Nat /\ Cardinality(W) \in Nat
      BY <1>0, <3>2, FS_CardinalityType
    <3> HIDE DEF W
    <3>4. Cardinality(W) <= MaxSymbols
      BY <1>0, <3>2, <3>3
    <3> QED BY <1>0, <3>1, <3>2, <3>4, WithinSubset
  <2> QED BY <2>2, <2>3, <2>4 DEF Journaled
<1>6. journal' \in [Symbols -> SUBSET accepted']
  BY <1>1, <1>4
<1> QED BY <1>4, <1>5, <1>6 DEF JournalSound

LEMMA JournalStep ==
  ASSUME MonitorInv, [Next]_vars
  PROVE  JournalSound'
<1>0. JournalSound /\ MaxTicksPerSymbol \in Nat /\ MaxSymbols \in Nat
  BY MonitorAssumption DEF MonitorInv
<1>1. CASE Process
  <2> DEFINE m == ReplayThrough(Head(queue).seq)
  <2>1. journal' = m.journal /\ accepted' = accepted
    BY <1>1 DEF Process
  <2>2. m.journal = [s \in Symbols |-> m.journal[s]]
    BY <1>1, ProcessHead, ReplayFacts
  <2>3. \A s \in Symbols : Pruned(m, s)
    BY <1>1, ProcessHead, ReplayFacts
  <2> HIDE DEF m
  <2>4. \A s \in Symbols : journal'[s] \in SUBSET journal[s]
    BY <2>1, <2>3 DEF Pruned
  <2>5. Used' \in SUBSET Used
    BY <2>4 DEF Used
  <2>6. IsFiniteSet(Used') /\ Cardinality(Used') <= MaxSymbols
    BY <1>0, <2>5, WithinSubset DEF JournalSound
  <2>7. \A s \in Symbols : IsFiniteSet(journal'[s]) /\ Cardinality(journal'[s]) <= MaxTicksPerSymbol
    BY <1>0, <2>4, WithinSubset DEF JournalSound
  <2>8. journal' \in [Symbols -> SUBSET accepted']
    BY <1>0, <2>1, <2>2, <2>4 DEF JournalSound
  <2>9. \A s \in Symbols : \A t \in journal'[s] : t.symbol = s
    BY <1>0, <2>4 DEF JournalSound
  <2> QED BY <2>6, <2>7, <2>8, <2>9 DEF JournalSound
<1>2. ASSUME NEW s \in Symbols, NEW price \in PricesOf[s], NEW lag \in LagsOf[s],
             Tick(s, price, now - lag)
      PROVE  JournalSound'
  <2> DEFINE tick == [symbol |-> s, price |-> price, ts |-> now - lag, seq |-> seq + 1, arrived |-> now]
  <2>1. tick.symbol = s
    OBVIOUS
  <2>2. \E over, victims : Journaled(s, tick, over, victims)
    BY <1>2, TickFacts
  <2> HIDE DEF tick
  <2> QED BY <2>1, <2>2, TickJournal
<1>3. CASE UNCHANGED <<journal, accepted>>
  BY <1>0, <1>3 DEF JournalSound, Used
<1> QED BY <1>1, <1>2, <1>3, QuietStep DEF ATick, Quiet

LEMMA MarkersStep ==
  ASSUME MonitorInv, [Next]_vars
  PROVE  MarkersSound'
<1>0. /\ fillPending \in [Symbols -> Int] /\ IsFiniteSet(Marked) /\ Cardinality(Marked) <= MaxSymbols
      /\ MaxSymbols \in Nat /\ now \in Nat
  BY MonitorAssumption DEF MonitorInv, MarkersSound, VariablesTyped
<1>1. CASE Process
  <2>1. fillPending' = [s \in Symbols |->
          IF \E p \in held : SymbolOf[p] = s THEN NoTime ELSE fillPending[s]]
    BY <1>1, ProcessKnows
  <2>2. fillPending' \in [Symbols -> Int]
    BY <1>0, <2>1 DEF NoTime
  <2>3. Marked' \in SUBSET Marked
    BY <2>1 DEF Marked
  <2> QED BY <1>0, <2>2, <2>3, WithinSubset DEF MarkersSound
<1>2. ASSUME NEW p \in Positions, FillNotice(p)
      PROVE  MarkersSound'
  <2> DEFINE s == SymbolOf[p]
  <2>0. s \in Symbols
    BY MonitorAssumption
  <2>1. PICK oldest \in IF s \notin Marked /\ Cardinality(Marked) >= MaxSymbols
                   THEN {{u} : u \in {u \in Marked : \A v \in Marked : fillPending[u] <= fillPending[v]}}
                   ELSE {{}} :
          fillPending' = [u \in Symbols |->
            IF u \in oldest THEN NoTime
            ELSE IF u = s /\ u \notin Marked THEN now ELSE fillPending[u]]
    BY <1>2, Zenon DEF FillNotice, Marked
  <2>2. fillPending' \in [Symbols -> Int]
    BY <1>0, <2>1 DEF NoTime
  <2>3. \/ oldest = {} /\ (s \in Marked \/ ~(Cardinality(Marked) >= MaxSymbols))
        \/ \E v \in Marked : oldest = {v}
    <3> HIDE DEF s
    <3> QED BY <2>1
  <2>4. Marked' \subseteq (Marked \ oldest) \cup {s}
    BY <2>1 DEF Marked
  <2>5. CASE oldest = {} /\ s \in Marked
    <3>1. Marked' \in SUBSET Marked
      BY <2>4, <2>5
    <3> QED BY <1>0, <2>2, <3>1, WithinSubset DEF MarkersSound
  <2>6. CASE oldest = {} /\ ~(Cardinality(Marked) >= MaxSymbols)
    <3> DEFINE W == Marked \cup {s}
    <3>1. Marked' \in SUBSET W
      BY <2>4, <2>6
    <3>2. IsFiniteSet(W) /\ Cardinality(W) <= MaxSymbols
      BY <1>0, <2>6, AddWithin
    <3> HIDE DEF W
    <3> QED BY <1>0, <2>2, <3>1, <3>2, WithinSubset DEF MarkersSound
  <2>7. ASSUME NEW v \in Marked, oldest = {v}
        PROVE  MarkersSound'
    <3> DEFINE W == (Marked \ {v}) \cup {s}
    <3>1. Marked' \in SUBSET W
      BY <2>4, <2>7
    <3>2. IsFiniteSet(W) /\ Cardinality(W) <= Cardinality(Marked)
      BY <1>0, <2>7, Exchange
    <3>3. Cardinality(Marked) \in Nat /\ Cardinality(W) \in Nat
      BY <1>0, <3>2, FS_CardinalityType
    <3> HIDE DEF W
    <3>4. Cardinality(W) <= MaxSymbols
      BY <1>0, <3>2, <3>3
    <3> QED BY <1>0, <2>2, <3>1, <3>2, <3>4, WithinSubset DEF MarkersSound
  <2> QED BY <2>3, <2>5, <2>6, <2>7
<1>3. CASE UNCHANGED fillPending
  BY <1>0, <1>3 DEF MarkersSound, Marked
<1> QED BY <1>1, <1>2, <1>3, MarkersChange
---------------------------------------------------------------------------
(* The life of a position                                                  *)

LEMMA PositionsStep ==
  ASSUME MonitorInv, [Next]_vars
  PROVE  PositionsSound'
<1>0. PositionsSound /\ VariablesTyped
  BY DEF MonitorInv
<1>1. CASE Process
  <2> DEFINE m == ReplayThrough(Head(queue).seq)
  <2>1. /\ visible' = m.visible /\ closed' = m.closed /\ progress' = m.progress
        /\ stage' = stage /\ held' = held
    BY <1>1 DEF Process, envVars
  <2>2. m.visible = held /\ m.closed = closed \ Gone /\ \A p \in Positions : Replayed(m, p, Head(queue).seq)
    BY <1>1, ProcessHead, ReplayFacts
  <2> HIDE DEF m
  <2>3. ASSUME NEW p \in Positions, p \notin held, p \notin visible
        PROVE  progress'[p] = progress[p]
    BY <2>1, <2>2, <2>3 DEF Replayed, Gone, Observable
  <2> QED BY <1>0, <2>1, <2>2, <2>3 DEF PositionsSound
<1>2. ASSUME NEW p \in Positions, Open(p)
      PROVE  PositionsSound'
  <2>1. /\ stage[p] = "none" /\ stage' = [stage EXCEPT ![p] = "open"]
        /\ \A q \in Positions : SymbolOf[q] = SymbolOf[p] => stage[q] # "open" /\ q \notin held
        /\ UNCHANGED <<held, visible, progress, closed>>
    BY <1>2 DEF Open, EnvUnchanged, monitorVars
  <2>2. \A q \in Positions : stage'[q] = IF q = p THEN "open" ELSE stage[q]
    BY <1>0, <2>1 DEF VariablesTyped
  <2> QED BY <1>0, <2>1, <2>2 DEF PositionsSound
<1>3. ASSUME NEW p \in Positions, Close(p)
      PROVE  PositionsSound'
  <2>1. /\ stage[p] = "open" /\ stage' = [stage EXCEPT ![p] = "closed"]
        /\ UNCHANGED <<held, visible, progress, closed>>
    BY <1>3 DEF Close, EnvUnchanged, monitorVars
  <2>2. \A q \in Positions : stage'[q] = IF q = p THEN "closed" ELSE stage[q]
    BY <1>0, <2>1 DEF VariablesTyped
  <2> QED BY <1>0, <2>1, <2>2 DEF PositionsSound
<1>4. CASE Refresh
  <2>1. /\ held' = {p \in Positions : stage[p] = "open"}
        /\ UNCHANGED <<stage, visible, progress, closed>>
    BY <1>4 DEF Refresh, EnvUnchanged, monitorVars
  <2> QED BY <1>0, <2>1 DEF PositionsSound
<1>5. CASE /\ UNCHANGED <<stage, held, visible, progress>>
           /\ \A p \in Positions : p \in closed' \ closed => stage[p] = "closed"
  BY <1>0, <1>5 DEF PositionsSound
<1>6. CASE ~Process /\ UNCHANGED <<stage, held>>
  <2>1. UNCHANGED <<visible, progress>>
    BY <1>6, QuietStep DEF ATick, Tick, Quiet
  <2>2. \A p \in Positions : p \in closed' \ closed => stage[p] = "closed"
    BY <1>6, SlotsChange DEF WindowClosed, PositionClosed, Acknowledge, Invalid
  <2> QED BY <1>5, <1>6, <2>1, <2>2
<1>7. CASE Pass
  BY <1>5, <1>7 DEF Pass, EnvUnchanged, monitorVars
<1> QED BY <1>1, <1>2, <1>3, <1>4, <1>6, <1>7, PositionsChange

---------------------------------------------------------------------------
(* No touch is lost                                                        *)

(* A tick of s leaves the journal only to be reported.                     *)
LEMMA TickKeeps ==
  ASSUME MonitorInv, NEW s \in Symbols, NEW tick, tick.symbol = s, NEW over, NEW victims,
         Journaled(s, tick, over, victims), expiredFlat' = expiredFlat
  PROVE  /\ tick \in journal'[s]
         /\ \A u \in Symbols : \A t \in journal[u] : t \in journal'[u] \/ Excused(t)'
         /\ \A t : Excused(t) => Excused(t)'
<1>1. /\ journal' = [u \in Symbols |-> IF u \in victims THEN {}
                      ELSE IF u = s THEN (journal[s] \ over) \cup {tick} ELSE journal[u]]
      /\ evicted' = evicted \cup over \cup UNION {journal[v] : v \in victims}
  BY DEF Journaled
<1>2. s \notin victims
  BY DEF Journaled
<1>3. tick \in journal'[s]
  BY <1>1, <1>2
<1>4. ASSUME NEW u \in Symbols, NEW t \in journal[u]
      PROVE  t \in journal'[u] \/ t \in evicted'
  <2>1. journal'[u] = IF u \in victims THEN {}
                      ELSE IF u = s THEN (journal[s] \ over) \cup {tick} ELSE journal[u]
    BY <1>1
  <2> QED BY <1>1, <2>1
<1> QED BY <1>1, <1>3, <1>4 DEF Excused

LEMMA RecentStep ==
  ASSUME MonitorInv, [Next]_vars
  PROVE  RecentKept'
<1>0. /\ RecentKept /\ TicksSound /\ JournalSound /\ now \in Nat /\ Retention \in Nat
      /\ \A t \in accepted : t.symbol \in Symbols /\ t.arrived \in Nat
  BY MonitorAssumption DEF MonitorInv, VariablesTyped, TicksSound, Ticks
<1>1. CASE Process
  <2> DEFINE m == ReplayThrough(Head(queue).seq)
  <2>1. /\ journal' = m.journal /\ accepted' = accepted /\ evicted' = evicted /\ now' = now
        /\ expiredFlat \subseteq expiredFlat'
    BY <1>1 DEF Process, envVars
  <2>2. \A s \in Symbols : Pruned(m, s)
    BY <1>1, ProcessHead, ReplayFacts
  <2> HIDE DEF m
  <2>3. ASSUME NEW t \in accepted, now - t.arrived < Retention
        PROVE  t \in journal'[t.symbol] \/ Excused(t)'
    <3>1. CASE Excused(t)
      BY <2>1, <3>1 DEF Excused
    <3>2. CASE t \in journal[t.symbol]
      <4>1. ~(Retention <= now - t.arrived)
        BY <1>0, <2>3
      <4>2. Pruned(m, t.symbol)
        BY <1>0, <2>2
      <4> QED BY <2>1, <3>2, <4>1, <4>2 DEF Pruned
    <3> QED BY <1>0, <2>3, <3>1, <3>2 DEF RecentKept
  <2> QED BY <2>1, <2>3 DEF RecentKept
<1>2. ASSUME NEW s \in Symbols, NEW price \in PricesOf[s], NEW lag \in LagsOf[s],
             Tick(s, price, now - lag)
      PROVE  RecentKept'
  <2> DEFINE tick == [symbol |-> s, price |-> price, ts |-> now - lag, seq |-> seq + 1, arrived |-> now]
  <2>1. tick.symbol = s
    OBVIOUS
  <2>2. PICK over, victims : Journaled(s, tick, over, victims)
    BY <1>2, TickFacts
  <2>3. expiredFlat' = expiredFlat /\ now' = now
    BY <1>2 DEF Tick, envVars
  <2> HIDE DEF tick
  <2>4. /\ tick \in journal'[s]
        /\ \A u \in Symbols : \A t \in journal[u] : t \in journal'[u] \/ Excused(t)'
        /\ \A t : Excused(t) => Excused(t)'
    BY <2>1, <2>2, <2>3, TickKeeps
  <2>5. accepted' = accepted \cup {tick}
    BY <2>2 DEF Journaled
  <2> QED BY <1>0, <2>1, <2>3, <2>4, <2>5 DEF RecentKept
<1>3. CASE Quiet
  <2>1. now' = now \/ now' = now + 1
    <3>1. ASSUME NEW p \in Positions, Open(p) \/ Close(p)
          PROVE  now' = now
      BY <3>1 DEF Open, Close
    <3> QED BY <3>1, PositionsChange DEF Refresh, Pass
  <2>2. \A t \in accepted : now' - t.arrived < Retention => now - t.arrived < Retention
    BY <1>0, <2>1
  <2> QED BY <1>0, <1>3, <2>2 DEF RecentKept, Excused, Quiet
<1> QED BY <1>1, <1>2, <1>3, QuietStep DEF ATick
LEMMA ProcessTouches ==
  ASSUME MonitorInv, Process, NEW p \in Positions, Minded(p)',
         NEW t \in accepted, t.symbol = SymbolOf[p], Touches(p, t)
  PROVE  Accounted(p, t)'
<1> DEFINE m == ReplayThrough(Head(queue).seq)
           b == Head(queue).seq
           s == SymbolOf[p]
           flat == {u \in {u \in Symbols : journal[u] # m.journal[u]} :
                      \A q \in held : SymbolOf[q] # u}
           out == UNION {journal[u] \ m.journal[u] : u \in flat}
<1>1. /\ journal' = m.journal /\ progress' = m.progress /\ closed' = m.closed
      /\ expiredFlat' = expiredFlat \cup out /\ evicted' = evicted
      /\ UNCHANGED <<stage, held, invalid, openedAt>>
  BY DEF Process, envVars
<1>2. b \in Nat /\ s \in Symbols
  BY ProcessHead, MonitorAssumption
<1>3. /\ m.closed = closed \ Gone /\ Replayed(m, p, b) /\ Pruned(m, s)
  BY <1>2, ReplayFacts
<1>4. /\ \/ p \in Gone /\ m.slots[p] = NoSlots
         \/ p \notin Gone /\ m.slots[p] = slots[p]
         \/ /\ p \notin Gone /\ Observable(p)
            /\ \E r \in {"stop", "target"}, ts \in Int :
                 m.slots[p] = [slots[p] EXCEPT !["protective"] = Pending(r, ts)]
      /\ SlotsOK(m.slots[p])
  BY <1>2, ReplayedSlots
<1>5. Observed(m, p)
  BY ProcessSlots
<1>6. out \subseteq expiredFlat' /\ \A u \in flat : journal[u] \ m.journal[u] \subseteq expiredFlat'
  BY <1>1
<1>7. s \in flat <=> journal[s] # m.journal[s] /\ \A q \in held : SymbolOf[q] # s
  BY <1>2
<1> HIDE DEF m, b, s, flat, out
<1>8. p \notin Gone /\ p \notin closed /\ Minded(p)
  BY <1>1, <1>3 DEF Minded, Gone, MonitorInv, PositionsSound
<1>9. Accounted(p, t)
  BY <1>8 DEF MonitorInv, TouchesKept
<1>10. CASE m.slots[p]["protective"] # NoSlot
  <2>1. m.slots[p] # NoSlots
    BY <1>10, NoSlotsOK
  <2>2. m.slots[p] \in [Kinds -> SlotRecords] /\ "protective" \in Kinds
    BY <1>4 DEF SlotsOK, Kinds
  <2>3. slots'[p]["protective"] # NoSlot
    BY <1>5, <1>10, <2>1, <2>2 DEF Observed, Pending, NoSlot
  <2> QED BY <2>3 DEF Accounted
<1>11. CASE Excused(t)
  BY <1>1, <1>11 DEF Accounted, Excused
<1>12. ASSUME m.slots[p]["protective"] = NoSlot, ~Excused(t)
       PROVE  Accounted(p, t)'
  <2>1. slots[p] \in [Kinds -> SlotRecords] /\ "protective" \in Kinds
    BY DEF MonitorInv, SlotsTyped, SlotsOK, Kinds
  <2>2. m.slots[p] = slots[p] /\ slots[p]["protective"] = NoSlot
    <3>1. \A r, ts : [slots[p] EXCEPT !["protective"] = Pending(r, ts)]["protective"] # NoSlot
      BY <2>1 DEF Pending, NoSlot
    <3> QED BY <1>4, <1>8, <1>12, <3>1
  <2>3. t \in journal[s] /\ t.seq > progress[p]
    BY <1>9, <1>12, <2>2 DEF Accounted, StillUnread, s
  <2>4. /\ t.seq \in Nat /\ progress[p] \in Nat
    BY DEF MonitorInv, TicksSound, Ticks, VariablesTyped
  <2>5. CASE p \in held
    <3>1. Observable(p) /\ p \in held \ closed
      BY <1>8, <2>2, <2>5 DEF Observable
    <3>2. Touching(p, b) = {}
      <4>1. \A u \in Touching(p, b) : m.slots[p] # Touched(p, u)
        BY <1>12, <2>1, <2>2 DEF Touched, Pending, NoSlot
      <4> QED BY <1>3, <3>1, <4>1 DEF Replayed
    <3>3. m.progress[p] = progress[p] \/ m.progress[p] <= b
      BY <1>3, <3>1, <3>2 DEF Replayed
    <3>4. ~(t.seq <= b)
      BY <2>3, <2>4, <3>2 DEF Touching, s
    <3>5. m.progress[p] \in Nat
      BY <1>3, <3>1, <3>2 DEF Replayed, MonitorInv, VariablesTyped
    <3>6. t.seq > m.progress[p]
      BY <1>2, <2>3, <2>4, <3>3, <3>4, <3>5
    <3>7. t \in m.journal[s]
      BY <1>3, <1>12, <2>3, <2>4, <3>1, <3>5, <3>6 DEF Pruned, s
    <3> QED BY <1>1, <3>6, <3>7 DEF Accounted, StillUnread, s
  <2>6. CASE p \notin held
    <3>1. m.progress[p] = progress[p]
      BY <1>3, <1>8, <2>6 DEF Replayed, Observable
    <3>2. \A q \in held : SymbolOf[q] # s
      BY <1>8, <2>6 DEF Minded, MonitorInv, PositionsSound, VariablesTyped, s
    <3>3. CASE t \in m.journal[s]
      BY <1>1, <2>3, <3>1, <3>3 DEF Accounted, StillUnread, s
    <3>4. CASE t \notin m.journal[s]
      <4>1. s \in flat
        BY <1>7, <2>3, <3>2, <3>4
      <4>2. t \in expiredFlat'
        BY <1>6, <2>3, <3>4, <4>1
      <4> QED BY <4>2 DEF Accounted, Excused
    <3> QED BY <3>3, <3>4
  <2> QED BY <2>5, <2>6
<1> QED BY <1>10, <1>11, <1>12

LEMMA TouchesStep ==
  ASSUME MonitorInv, [Next]_vars
  PROVE  TouchesKept'
<1>0. TouchesKept /\ VariablesTyped /\ TicksSound /\ JournalSound /\ SlotsTyped /\ PositionsSound
  BY DEF MonitorInv
<1>1. CASE Process
  <2>1. UNCHANGED <<accepted, openedAt>>
    BY <1>1 DEF Process, envVars
  <2>2. \A p \in Positions, t \in accepted : Touches(p, t)' <=> Touches(p, t)
    BY <2>1 DEF Touches
  <2> QED BY <1>1, <2>1, <2>2, ProcessTouches DEF TouchesKept
<1>2. ASSUME NEW s \in Symbols, NEW price \in PricesOf[s], NEW lag \in LagsOf[s],
             Tick(s, price, now - lag)
      PROVE  TouchesKept'
  <2> DEFINE tick == [symbol |-> s, price |-> price, ts |-> now - lag, seq |-> seq + 1, arrived |-> now]
  <2>1. tick.symbol = s /\ tick.seq = seq + 1
    OBVIOUS
  <2>2. PICK over, victims : Journaled(s, tick, over, victims)
    BY <1>2, TickFacts
  <2>3. /\ UNCHANGED <<expiredFlat, stage, held, closed, invalid, openedAt, slots, progress>>
    BY <1>2 DEF Tick, envVars
  <2> HIDE DEF tick
  <2>4. /\ tick \in journal'[s]
        /\ \A u \in Symbols : \A t \in journal[u] : t \in journal'[u] \/ Excused(t)'
        /\ \A t : Excused(t) => Excused(t)'
    BY <2>1, <2>2, <2>3, TickKeeps
  <2>5. accepted' = accepted \cup {tick}
    BY <2>2 DEF Journaled
  <2>6. ASSUME NEW p \in Positions, Minded(p)', NEW t \in accepted', t.symbol = SymbolOf[p],
               Touches(p, t)'
        PROVE  Accounted(p, t)'
    <3>1. CASE t = tick
      <4>1. progress[p] \in 0 .. seq /\ seq \in Nat
        BY <1>0 DEF TicksSound, VariablesTyped
      <4>2. t.seq > progress'[p]
        BY <2>1, <2>3, <3>1, <4>1
      <4> QED BY <2>1, <2>4, <3>1, <4>2 DEF Accounted, StillUnread
    <3>2. CASE t \in accepted
      <4>1. Accounted(p, t)
        BY <1>0, <2>3, <2>6, <3>2 DEF TouchesKept, Minded, Touches
      <4>2. t.symbol \in Symbols
        BY <2>6, MonitorAssumption
      <4> QED BY <2>3, <2>4, <4>1, <4>2 DEF Accounted, StillUnread
    <3> QED BY <2>5, <2>6, <3>1, <3>2
  <2> QED BY <2>6 DEF TouchesKept
<1>3. ASSUME NEW p \in Positions, Open(p)
      PROVE  TouchesKept'
  <2>1. /\ stage[p] = "none" /\ stage' = [stage EXCEPT ![p] = "open"]
        /\ openedAt' = [openedAt EXCEPT ![p] = now]
        /\ UNCHANGED <<held, slots, journal, progress, closed, accepted, evicted, expiredFlat, invalid>>
    BY <1>3 DEF Open, EnvUnchanged, monitorVars, history
  <2>2. ASSUME NEW q \in Positions, Minded(q)', NEW t \in accepted', t.symbol = SymbolOf[q],
               Touches(q, t)'
        PROVE  Accounted(q, t)'
    <3>1. CASE q = p
      <4>1. progress[p] = 0 /\ t \in accepted
        BY <1>0, <2>1 DEF PositionsSound
      <4>2. openedAt'[p] = now
        BY <1>0, <2>1 DEF VariablesTyped
      <4>3. now <= t.ts
        BY <2>2, <3>1, <4>2 DEF Touches
      <4>4. /\ t.seq \in Nat /\ t.seq > 0 /\ t.ts \in Int /\ t.arrived \in Nat /\ now \in Nat
            /\ t.ts <= t.arrived /\ t.arrived <= now
        BY <1>0, <4>1 DEF TicksSound, Ticks, VariablesTyped
      <4>5. now - t.arrived < Retention
        BY <4>3, <4>4, MonitorAssumption
      <4>6. t \in journal[t.symbol] \/ Excused(t)
        BY <4>1, <4>5 DEF MonitorInv, RecentKept
      <4> QED BY <2>1, <3>1, <4>1, <4>4, <4>6 DEF Accounted, StillUnread, Excused
    <3>2. CASE q # p
      <4>1. stage'[q] = stage[q] /\ openedAt'[q] = openedAt[q]
        BY <1>0, <2>1, <3>2 DEF VariablesTyped
      <4>2. Minded(q) /\ Touches(q, t)
        BY <2>1, <2>2, <4>1 DEF Minded, Touches
      <4>3. Accounted(q, t)
        BY <1>0, <2>1, <2>2, <4>2 DEF TouchesKept
      <4> QED BY <2>1, <4>3 DEF Accounted, StillUnread, Excused
    <3> QED BY <3>1, <3>2
  <2> QED BY <2>2 DEF TouchesKept
<1>4. CASE /\ \A p \in Positions : Minded(p)' => Minded(p)
           /\ UNCHANGED <<openedAt, slots, journal, progress, accepted, evicted, expiredFlat>>
  BY <1>0, <1>4 DEF TouchesKept, Accounted, StillUnread, Excused, Touches
<1>5. ASSUME NEW p \in Positions, Close(p)
      PROVE  TouchesKept'
  <2>1. /\ stage[p] = "open" /\ stage' = [stage EXCEPT ![p] = "closed"]
        /\ UNCHANGED <<openedAt, held, slots, journal, progress, closed, accepted, evicted,
                       expiredFlat, invalid>>
    BY <1>5 DEF Close, EnvUnchanged, monitorVars, history
  <2>2. \A q \in Positions : stage'[q] = "open" => stage[q] = "open"
    BY <1>0, <2>1 DEF VariablesTyped
  <2> QED BY <1>4, <2>1, <2>2 DEF Minded
<1>6. CASE Refresh
  <2>1. /\ held' = {p \in Positions : stage[p] = "open"}
        /\ UNCHANGED <<stage, openedAt, slots, journal, progress, closed, accepted, evicted,
                       expiredFlat, invalid>>
    BY <1>6 DEF Refresh, EnvUnchanged, monitorVars, history
  <2> QED BY <1>4, <2>1 DEF Minded
<1>7. CASE Pass
  BY <1>4, <1>7 DEF Pass, EnvUnchanged, monitorVars, history, Minded
<1>8. ASSUME NEW p \in Positions,
             /\ UNCHANGED <<stage, held, openedAt, journal, progress, accepted, evicted, expiredFlat>>
             /\ closed \subseteq closed' /\ invalid \subseteq invalid'
             /\ \A q \in Positions \ {p} : slots'[q] = slots[q]
             /\ \/ p \in closed' \cup invalid'
                \/ slots[p]["protective"] # NoSlot => slots'[p]["protective"] # NoSlot
      PROVE  TouchesKept'
  <2>1. ASSUME NEW q \in Positions, Minded(q)', NEW t \in accepted', t.symbol = SymbolOf[q],
               Touches(q, t)'
        PROVE  Accounted(q, t)'
    <3>1. Minded(q) /\ Touches(q, t)
      BY <1>8, <2>1 DEF Minded, Touches
    <3>2. Accounted(q, t)
      BY <1>0, <1>8, <2>1, <3>1 DEF TouchesKept
    <3>3. slots[q]["protective"] # NoSlot => slots'[q]["protective"] # NoSlot
      BY <1>8, <2>1 DEF Minded
    <3> QED BY <1>8, <3>2, <3>3 DEF Accounted, StillUnread, Excused
  <2> QED BY <2>1 DEF TouchesKept
<1>9. ASSUME NEW p \in Positions, WindowClosed(p)
      PROVE  TouchesKept'
  <2>1. slots' = [slots EXCEPT ![p]["eod"].state = "expired"]
    BY <1>9 DEF WindowClosed
  <2>2. slots'[p]["protective"] = slots[p]["protective"] /\ \A q \in Positions \ {p} : slots'[q] = slots[q]
    BY <1>0, <2>1 DEF SlotsTyped, SlotsOK, Kinds
  <2> QED BY <1>8, <1>9, <2>2 DEF WindowClosed, ConsumerUnchanged, envVars
<1>10. ASSUME NEW p \in Positions, PositionClosed(p)
       PROVE  TouchesKept'
  <2>1. \A q \in Positions \ {p} : slots'[q] = slots[q]
    BY <1>0, <1>10 DEF SlotsTyped, PositionClosed
  <2> QED BY <1>8, <1>10, <2>1 DEF PositionClosed, ConsumerUnchanged, envVars
<1>11. ASSUME NEW p \in Positions, NEW k \in Kinds, Acknowledge(p, k)
       PROVE  TouchesKept'
  <2>1. slots' = [slots EXCEPT ![p][k].state = "acknowledged"] /\ slots[p] \in [Kinds -> SlotRecords]
    BY <1>0, <1>11 DEF Acknowledge, SlotsTyped, SlotsOK
  <2>2. slots[p]["protective"] # NoSlot => slots'[p]["protective"] # NoSlot
    BY <1>0, <2>1 DEF SlotsTyped, NoSlot, SlotRecords, Kinds
  <2>3. \A q \in Positions \ {p} : slots'[q] = slots[q]
    BY <1>0, <2>1 DEF SlotsTyped
  <2> QED BY <1>8, <1>11, <2>2, <2>3 DEF Acknowledge, ConsumerUnchanged, envVars
<1>12. ASSUME NEW p \in Positions, NEW k \in Kinds, Invalid(p, k)
       PROVE  TouchesKept'
  <2>1. \A q \in Positions \ {p} : slots'[q] = slots[q]
    BY <1>0, <1>12 DEF SlotsTyped, Invalid
  <2> QED BY <1>8, <1>12, <2>1 DEF Invalid, ConsumerUnchanged, envVars
<1>13. CASE ~Process /\ ~ATick /\ UNCHANGED <<stage, openedAt, held>> /\ UNCHANGED <<slots, closed, invalid>>
  BY <1>4, <1>13, QuietStep DEF Quiet, Minded
<1>14. CASE ~Process /\ ~ATick /\ UNCHANGED <<stage, openedAt, held, now>>
  BY <1>9, <1>10, <1>11, <1>12, <1>13, <1>14, SlotsChange
<1> QED BY <1>1, <1>2, <1>3, <1>5, <1>6, <1>7, <1>14, PositionsChange DEF ATick

LEMMA MonitorStep == MonitorInv /\ [Next]_vars => MonitorInv'
BY VariablesStep, SlotsStep, QueueStep, JournalStep, MarkersStep, TicksStep, PositionsStep,
   RecentStep, TouchesStep, LossStep DEF MonitorInv
LEMMA MonitorInit == Init => MonitorInv
<1> SUFFICES ASSUME Init
             PROVE  MonitorInv
  OBVIOUS
<1>0. /\ MaxEvents \in Nat /\ SymbolOf \in [Positions -> Symbols]
      /\ MaxTicksPerSymbol \in Nat \ {0} /\ MaxSymbols \in Nat \ {0} /\ Retention \in Nat \ {0}
  BY MonitorAssumption
<1>1. held \subseteq Positions /\ (held = {} \/ \E p \in Positions : held = {p})
  BY MonitorAssumption DEF Init
<1>2. VariablesTyped
  BY <1>0, <1>1 DEF Init, VariablesTyped, NoTime
<1>3. SlotsTyped
  <2>1. \A r \in Restored : SlotsOK(r)
    BY NoSlotsOK DEF Restored, SlotsOK, NoSlots, NoSlot, NoTime, SlotRecords, SlotStates, Reasons, Kinds
  <2>2. PICK r \in Restored : slots = [p \in Positions |-> IF p \in held THEN r ELSE NoSlots]
    BY DEF Init
  <2> QED BY <2>1, <2>2, NoSlotsOK DEF SlotsTyped
<1>4. QueueSound
  <2>1. queue = <<>>
    BY DEF Init
  <2>2. <<>> \in Seq(Items) /\ DOMAIN <<>> = {}
    OBVIOUS
  <2> QED BY <2>1, <2>2 DEF QueueSound, QueueOK
<1>5. JournalSound
  <2>1. \A s \in Symbols : journal[s] = {}
    BY DEF Init
  <2>2. Used = {} /\ journal \in [Symbols -> SUBSET accepted]
    BY <2>1 DEF Used, Init
  <2>3. IsFiniteSet({}) /\ Cardinality({}) = 0
    BY FS_EmptySet
  <2> QED BY <1>0, <2>1, <2>2, <2>3 DEF JournalSound
<1>6. MarkersSound
  <2>1. Marked = {} /\ fillPending \in [Symbols -> Int]
    BY DEF Marked, Init, NoTime
  <2>2. IsFiniteSet({}) /\ Cardinality({}) = 0
    BY FS_EmptySet
  <2> QED BY <1>0, <2>1, <2>2 DEF MarkersSound
<1>7. TicksSound /\ RecentKept /\ TouchesKept /\ LossTold
  BY DEF Init, TicksSound, RecentKept, TouchesKept, LossTold
<1>8. PositionsSound
  BY <1>1 DEF Init, PositionsSound
<1> QED BY <1>2, <1>3, <1>4, <1>5, <1>6, <1>7, <1>8 DEF MonitorInv

(* The journal, the slots and what is known of each position stay in step  *)
(* whatever arrives, fails or is handed back.                              *)
THEOREM MonitorInductive == Spec => []MonitorInv
BY MonitorInit, MonitorStep, PTL DEF Spec

---------------------------------------------------------------------------
(* The theorems                                                            *)

(* The journal, the markers and the queue stay within their limits, and    *)
(* the journal holds only what arrived.                                    *)
THEOREM MonitorTypeTheorem == Spec => []TypeOK
<1>1. ASSUME MonitorInv
      PROVE  TypeOK
  <2>1. /\ seq \in 0 .. MaxEvents /\ visible \subseteq Positions /\ closed \subseteq Positions
    BY <1>1 DEF MonitorInv, VariablesTyped
  <2>2. \A p \in Positions, k \in Kinds :
          slots[p][k].state \in {"none", "pending", "acknowledged", "expired"}
    BY <1>1 DEF MonitorInv, SlotsTyped, SlotsOK, SlotRecords, SlotStates
  <2>3. \A s \in Symbols : /\ Cardinality(journal[s]) <= MaxTicksPerSymbol
                           /\ journal[s] \subseteq accepted
    BY <1>1 DEF MonitorInv, JournalSound
  <2>4. /\ Cardinality({s \in Symbols : journal[s] # {}}) <= MaxSymbols
        /\ Cardinality({s \in Symbols : fillPending[s] # NoTime}) <= MaxSymbols
    BY <1>1 DEF MonitorInv, JournalSound, MarkersSound, Used, Marked
  <2>5. ASSUME NEW k \in Wakeups
        PROVE  Cardinality(Queued(k)) <= 1
    <3>1. \A i, j \in Queued(k) : i = j
      BY <1>1, <2>5 DEF Queued, MonitorInv, QueueSound, QueueOK
    <3>2. CASE Queued(k) = {}
      BY <3>2, FS_EmptySet
    <3>3. ASSUME NEW i \in Queued(k)
          PROVE  Cardinality(Queued(k)) <= 1
      <4>1. Queued(k) = {i}
        BY <3>1, <3>3
      <4> QED BY <4>1, FS_Singleton
    <3> QED BY <3>2, <3>3
  <2> QED BY <2>1, <2>2, <2>3, <2>4, <2>5 DEF TypeOK, Wakeups
<1> QED BY <1>1, MonitorInductive, PTL

(* No touch of an open position is lost without being reported, whatever   *)
(* the order of ticks, fills, snapshots, pulses, outages and evictions.    *)
THEOREM TouchTheorem == Spec => []TouchNotLost
<1>1. ASSUME MonitorInv
      PROVE  TouchNotLost
  <2>1. ASSUME NEW p \in Positions, stage[p] = "open", p \notin invalid,
               NEW t \in accepted, t.symbol = SymbolOf[p], Touches(p, t)
        PROVE  \/ slots[p]["protective"] # NoSlot
               \/ t \in journal[t.symbol] /\ t.seq > progress[p]
               \/ Excused(t)
    <3>1. Minded(p)
      BY <1>1, <2>1 DEF Minded, MonitorInv, PositionsSound
    <3> QED BY <1>1, <2>1, <3>1 DEF MonitorInv, TouchesKept, Accounted, StillUnread
  <2> QED BY <1>1, <2>1 DEF TouchNotLost, MonitorInv, LossTold
<1> QED BY <1>1, MonitorInductive, PTL
(* What one reading makes of the slots of a position.                      *)
Reads(p) ==
  \/ slots'[p] = slots[p]
  \/ p \in Gone /\ slots'[p] = NoSlots
  \/ /\ Observable(p)
     /\ \E k \in Kinds, r \in Reasons, ts \in Int :
          /\ slots[p][k] = NoSlot
          /\ slots'[p] = [slots[p] EXCEPT ![k] = Pending(r, ts)]

LEMMA ProcessReads ==
  ASSUME MonitorInv, Process, NEW p \in Positions
  PROVE  /\ Reads(p)
         /\ slots[p]["eod"] = NoSlot /\ slots'[p]["eod"] # NoSlot =>
              /\ FlattenAt <= now /\ now < CloseAt
              /\ Observable(p) /\ Touching(p, Head(queue).seq) = {}
              /\ \E ts \in Int : /\ openedAt[p] <= ts
                                 /\ slots'[p] = [slots[p] EXCEPT !["eod"] = Pending("eod_flatten", ts)]
<1> DEFINE m == ReplayThrough(Head(queue).seq)
           b == Head(queue).seq
<1>1. /\ \/ p \in Gone /\ m.slots[p] = NoSlots
         \/ p \notin Gone /\ m.slots[p] = slots[p]
         \/ /\ p \notin Gone /\ Observable(p)
            /\ \E r \in {"stop", "target"}, ts \in Int :
                 m.slots[p] = [slots[p] EXCEPT !["protective"] = Pending(r, ts)]
      /\ SlotsOK(m.slots[p])
  BY ProcessHead, ReplayedSlots
<1>2. Observed(m, p) /\ Replayed(m, p, b) /\ m.closed = closed \ Gone
  BY ProcessHead, ProcessSlots, ReplayFacts
<1> HIDE DEF m, b
<1>3. slots[p] \in [Kinds -> SlotRecords] /\ Kinds = {"protective", "eod"}
  BY DEF MonitorInv, SlotsTyped, SlotsOK, Kinds
<1>4. \A r, ts : /\ [slots[p] EXCEPT !["protective"] = Pending(r, ts)]["protective"] # NoSlot
                 /\ [slots[p] EXCEPT !["protective"] = Pending(r, ts)]["eod"] = slots[p]["eod"]
  BY <1>3 DEF Pending, NoSlot
<1>5. {"stop", "target", "eod_flatten"} \subseteq Reasons
  BY DEF Reasons
<1>6. CASE slots'[p] = m.slots[p]
  <2>1. Reads(p)
    BY <1>1, <1>3, <1>5, <1>6 DEF Reads, Observable
  <2>2. ASSUME slots[p]["eod"] = NoSlot
        PROVE  slots'[p]["eod"] = NoSlot
    <3>1. CASE m.slots[p] = NoSlots
      BY <1>6, <3>1, NoSlotsOK
    <3>2. CASE m.slots[p] = slots[p]
      BY <1>6, <2>2, <3>2
    <3>3. ASSUME NEW r, NEW ts, m.slots[p] = [slots[p] EXCEPT !["protective"] = Pending(r, ts)]
          PROVE  slots'[p]["eod"] = NoSlot
      BY <1>3, <1>6, <2>2, <3>3
    <3> QED BY <1>1, <3>1, <3>2, <3>3
  <2> QED BY <2>1, <2>2
<1>7. ASSUME p \in held \ m.closed, m.slots[p]["protective"] = NoSlot
      PROVE  m.slots[p] = slots[p] /\ Observable(p) /\ Touching(p, b) = {}
  <2>1. p \notin Gone /\ p \notin closed
    BY <1>2, <1>7 DEF Gone
  <2>2. m.slots[p] = slots[p]
    BY <1>1, <1>4, <1>7, <2>1
  <2>3. Observable(p)
    BY <1>7, <2>1, <2>2 DEF Observable
  <2>4. \A t \in Touching(p, b) : m.slots[p] # Touched(p, t)
    BY <1>4, <1>7 DEF Touched
  <2> QED BY <1>2, <2>2, <2>3, <2>4 DEF Replayed
<1>8. ASSUME p \in held \ m.closed, m.slots[p]["protective"] = NoSlot,
             NEW r \in {"stop", "target"}, NEW ts \in Int,
             slots'[p] = [m.slots[p] EXCEPT !["protective"] = Pending(r, ts)]
      PROVE  Reads(p) /\ (slots[p]["eod"] = NoSlot => slots'[p]["eod"] = NoSlot)
  BY <1>3, <1>4, <1>5, <1>7, <1>8 DEF Reads, Observable
<1>9. ASSUME p \in held \ m.closed, m.slots[p] = NoSlots, FlattenAt <= now, now < CloseAt,
             NEW ts \in Int, openedAt[p] <= ts,
             slots'[p] = [m.slots[p] EXCEPT !["eod"] = Pending("eod_flatten", ts)]
      PROVE  /\ Reads(p) /\ Observable(p) /\ Touching(p, b) = {}
             /\ slots'[p] = [slots[p] EXCEPT !["eod"] = Pending("eod_flatten", ts)]
  <2>1. m.slots[p] = slots[p] /\ Observable(p) /\ Touching(p, b) = {}
    BY <1>7, <1>9, NoSlotsOK
  <2>2. slots[p]["eod"] = NoSlot
    BY <1>9, <2>1, NoSlotsOK
  <2>3. slots'[p] = [slots[p] EXCEPT !["eod"] = Pending("eod_flatten", ts)]
    BY <1>9, <2>1
  <2>4. Reads(p)
    BY <1>3, <1>5, <2>1, <2>2, <2>3 DEF Reads
  <2> QED BY <2>1, <2>3, <2>4
<1> QED BY <1>2, <1>6, <1>8, <1>9 DEF Observed, b

LEMMA EodStep ==
  ASSUME MonitorInv, [Next]_vars, NEW p \in Positions,
         slots[p]["eod"] = NoSlot, slots'[p]["eod"] # NoSlot
  PROVE  /\ FlattenAt <= now /\ now < CloseAt /\ slots'[p]["protective"] = NoSlot
         /\ slots'[p]["eod"].ts >= openedAt[p]
         /\ p \notin invalid =>
              \A t \in accepted :
                (t.symbol = SymbolOf[p] /\ t.seq <= Head(queue).seq /\ Touches(p, t)) => Excused(t)
<1>0. /\ \A q \in Positions : slots[q] \in [Kinds -> SlotRecords]
      /\ Kinds = {"protective", "eod"} /\ slots = [q \in Positions |-> slots[q]]
  BY DEF MonitorInv, SlotsTyped, SlotsOK, Kinds
<1>1. Process
  <2>1. ASSUME NEW q \in Positions, WindowClosed(q)
        PROVE  FALSE
    BY <1>0, <2>1 DEF WindowClosed, NoSlot
  <2>2. ASSUME NEW q \in Positions, PositionClosed(q)
        PROVE  FALSE
    BY <1>0, <2>2, NoSlotsOK DEF PositionClosed
  <2>3. ASSUME NEW q \in Positions, NEW k \in Kinds, Acknowledge(q, k)
        PROVE  FALSE
    <3>1. slots' = [slots EXCEPT ![q] = [slots[q] EXCEPT ![k].state = "acknowledged"]]
          /\ slots[q][k] # NoSlot
      BY <2>3 DEF Acknowledge
    <3> QED BY <1>0, <3>1
  <2>4. ASSUME NEW q \in Positions, NEW k \in Kinds, Invalid(q, k)
        PROVE  FALSE
    <3>1. slots' = [slots EXCEPT ![q] = [slots[q] EXCEPT ![k] = NoSlot]]
      BY <2>4 DEF Invalid
    <3> QED BY <1>0, <3>1
  <2> QED BY <2>1, <2>2, <2>3, <2>4, SlotsChange
<1> DEFINE b == Head(queue).seq
<1>2. PICK ts \in Int : /\ openedAt[p] <= ts
                        /\ slots'[p] = [slots[p] EXCEPT !["eod"] = Pending("eod_flatten", ts)]
  BY <1>1, ProcessReads
<1>3. FlattenAt <= now /\ now < CloseAt /\ Observable(p) /\ Touching(p, b) = {}
  BY <1>1, ProcessReads
<1> HIDE DEF b
<1>4. slots'[p]["protective"] = NoSlot /\ slots'[p]["eod"].ts = ts
  BY <1>0, <1>2, <1>3 DEF Observable, Pending
<1>5. ASSUME p \notin invalid, NEW t \in accepted, t.symbol = SymbolOf[p], t.seq <= b, Touches(p, t)
      PROVE  Excused(t)
  <2>1. Minded(p) /\ slots[p]["protective"] = NoSlot
    BY <1>3, <1>5 DEF Minded, Observable
  <2>2. Accounted(p, t)
    BY <1>5, <2>1 DEF MonitorInv, TouchesKept
  <2>3. t.seq \in Nat /\ progress[p] \in Nat
    BY DEF MonitorInv, TicksSound, Ticks, VariablesTyped
  <2>4. ~StillUnread(p, t)
    BY <1>3, <1>5, <2>3 DEF StillUnread, Touching
  <2> QED BY <2>1, <2>2, <2>4 DEF Accounted
<1>6. openedAt[p] \in Int
  BY DEF MonitorInv, VariablesTyped
<1> QED BY <1>2, <1>3, <1>4, <1>5, <1>6 DEF b

(* An EOD observation never hides a touch that arrived before its pulse.   *)
THEOREM EodTheorem == Spec => EodOnlyUntouched
<1> DEFINE Eod == \A p \in Positions :
       slots[p]["eod"] = NoSlot /\ slots'[p]["eod"] # NoSlot =>
         /\ FlattenAt <= now /\ now < CloseAt /\ slots'[p]["protective"] = NoSlot
         /\ slots'[p]["eod"].ts >= openedAt[p]
         /\ p \notin invalid =>
              \A t \in accepted :
                (t.symbol = SymbolOf[p] /\ t.seq <= Head(queue).seq /\ Touches(p, t))
                  => Excused(t)
<1>1. MonitorInv /\ [Next]_vars => [Eod]_vars
  BY EodStep
<1> HIDE DEF Eod
<1>2. Spec => [][Eod]_vars
  BY <1>1, MonitorInductive, PTL DEF Spec
<1> QED BY <1>2 DEF EodOnlyUntouched, Eod

---------------------------------------------------------------------------
(* The slots implement the handoff                                         *)

StatesOf == [p \in Positions |-> [k \in Kinds |-> slots[p][k].state]]

LEMMA ContractInit == Init => Slots!Init
<1> SUFFICES ASSUME Init
             PROVE  Slots!Init
  OBVIOUS
<1>1. \A r \in Restored, k \in Kinds : r[k].state \in {"none", "acknowledged", "expired"}
  BY DEF Restored, NoSlots, NoSlot, Kinds
<1>2. \A k \in Kinds : NoSlots[k].state = "none"
  BY DEF NoSlots, NoSlot
<1>3. \A p \in Positions, k \in Kinds : slots[p][k].state \in {"none", "acknowledged", "expired"}
  BY <1>1, <1>2 DEF Init
<1>4. visible = {} /\ closed = {}
  BY DEF Init
<1> QED BY <1>3, <1>4 DEF Slots!Init, Slots!Kinds, Slots!States, Slots!None, Kinds

(* Tables that agree everywhere but in one row or in one entry.            *)
LEMMA OneRow ==
  ASSUME NEW A, NEW B, NEW C, NEW S \in [A -> [B -> C]], NEW T \in [A -> [B -> C]],
         NEW p \in A, NEW f \in [B -> C],
         \A q \in A, l \in B : T[q][l] = IF q = p THEN f[l] ELSE S[q][l]
  PROVE  T = [S EXCEPT ![p] = f]
<1>1. ASSUME NEW q \in A
      PROVE  T[q] = IF q = p THEN f ELSE S[q]
  <2>1. T[q] \in [B -> C] /\ S[q] \in [B -> C]
    OBVIOUS
  <2>2. CASE q = p
    <3>1. \A l \in B : T[q][l] = f[l]
      BY <2>2
    <3> QED BY <2>1, <2>2, <3>1
  <2>3. CASE q # p
    <3>1. \A l \in B : T[q][l] = S[q][l]
      BY <2>3
    <3> QED BY <2>1, <2>3, <3>1
  <2> QED BY <2>2, <2>3
<1> QED BY <1>1

LEMMA OneEntry ==
  ASSUME NEW A, NEW B, NEW C, NEW S \in [A -> [B -> C]], NEW T \in [A -> [B -> C]],
         NEW p \in A, NEW k \in B, NEW v \in C,
         \A q \in A, l \in B : T[q][l] = IF q = p /\ l = k THEN v ELSE S[q][l]
  PROVE  T = [S EXCEPT ![p][k] = v]
<1> DEFINE f == [S[p] EXCEPT ![k] = v]
<1>1. f \in [B -> C] /\ \A l \in B : f[l] = IF l = k THEN v ELSE S[p][l]
  OBVIOUS
<1>2. [S EXCEPT ![p][k] = v] = [S EXCEPT ![p] = f]
  OBVIOUS
<1> HIDE DEF f
<1>3. \A q \in A, l \in B : T[q][l] = IF q = p THEN f[l] ELSE S[q][l]
  BY <1>1
<1>4. T = [S EXCEPT ![p] = f]
  BY <1>1, <1>3, OneRow
<1> QED BY <1>2, <1>4

LEMMA ContractStep ==
  ASSUME MonitorInv, MonitorInv', [Next]_vars
  PROVE  [Slots!Next]_(Slots!vars)
<1>0. /\ \A q \in Positions : slots[q] \in [Kinds -> SlotRecords] /\ SlotsOK(slots[q])
      /\ \A q \in Positions : slots'[q] \in [Kinds -> SlotRecords]
      /\ Kinds = {"protective", "eod"} /\ slots = [q \in Positions |-> slots[q]]
      /\ Slots!Kinds = Kinds /\ Slots!None = "none" /\ Slots!States = SlotStates
      /\ Slots!NoSlots = [k \in Kinds |-> "none"]
  BY DEF MonitorInv, SlotsTyped, SlotsOK, Kinds, Slots!Kinds, Slots!None, Slots!States, SlotStates, Slots!NoSlots
<1>1. /\ \A q \in Positions : StatesOf[q] = [k \in Kinds |-> slots[q][k].state]
      /\ \A q \in Positions : StatesOf'[q] = [k \in Kinds |-> slots'[q][k].state]
      /\ StatesOf \in [Positions -> [Kinds -> SlotStates]]
      /\ StatesOf' \in [Positions -> [Kinds -> SlotStates]]
  BY <1>0 DEF StatesOf, SlotRecords
<1>2. CASE Process
  <2>1. visible' = held /\ closed' = closed \ Gone /\ held \subseteq Positions
    BY <1>2, ProcessKnows DEF MonitorInv, VariablesTyped
  <2>2. ASSUME NEW p \in Positions
        PROVE  Slots!Read(p)
    <3>1. Reads(p)
      BY <1>2, ProcessReads
    <3>2. CASE slots'[p] = slots[p]
      <4>1. StatesOf'[p] = StatesOf[p]
        BY <1>1, <3>2
      <4> QED BY <4>1 DEF Slots!Read, StatesOf
    <3>3. CASE p \in Gone /\ slots'[p] = NoSlots
      <4>1. StatesOf'[p] = Slots!NoSlots
        BY <1>0, <1>1, <3>3 DEF NoSlots, NoSlot
      <4>2. p \in visible \ visible'
        BY <2>1, <3>3 DEF Gone
      <4> QED BY <4>1, <4>2 DEF Slots!Read, StatesOf
    <3>4. ASSUME Observable(p), NEW k \in Kinds, NEW r \in Reasons, NEW ts \in Int,
                 slots[p][k] = NoSlot, slots'[p] = [slots[p] EXCEPT ![k] = Pending(r, ts)]
          PROVE  Slots!Read(p)
      <4>1. StatesOf'[p] = [StatesOf[p] EXCEPT ![k] = "pending"]
        <5>1. \A l \in Kinds : slots'[p][l].state = IF l = k THEN "pending" ELSE slots[p][l].state
          BY <1>0, <3>4 DEF Pending
        <5> QED BY <1>1, <5>1
      <4>2. StatesOf[p][k] = "none" /\ StatesOf[p]["protective"] = "none"
        BY <1>0, <1>1, <3>4 DEF Observable, NoSlot
      <4>3. p \in visible' \ closed
        BY <2>1, <3>4 DEF Observable
      <4> QED BY <1>0, <4>1, <4>2, <4>3 DEF Slots!Read, StatesOf
    <3> QED BY <3>1, <3>2, <3>3, <3>4 DEF Reads
  <2>3. closed' = closed \ (visible \ visible') /\ visible' \in SUBSET Positions
    BY <2>1 DEF Gone
  <2>4. Slots!ReadAll
    BY <1>0, <1>1, <2>2, <2>3 DEF Slots!ReadAll, StatesOf
  <2> QED BY <2>4 DEF Slots!Next
<1>3. ASSUME NEW p \in Positions, WindowClosed(p)
      PROVE  [Slots!Next]_(Slots!vars)
  <2>1. /\ slots[p]["eod"].state \in {"pending", "expired"}
        /\ slots' = [slots EXCEPT ![p]["eod"].state = "expired"]
        /\ UNCHANGED <<visible, closed>>
    BY <1>3 DEF WindowClosed, ConsumerUnchanged
  <2>2. \A q \in Positions, l \in Kinds :
          slots'[q][l].state = IF q = p /\ l = "eod" THEN "expired" ELSE slots[q][l].state
    BY <1>0, <2>1 DEF SlotRecords
  <2>3. StatesOf' = [StatesOf EXCEPT ![p]["eod"] = "expired"]
    <3>1. \A q \in Positions, l \in Kinds :
            StatesOf'[q][l] = IF q = p /\ l = "eod" THEN "expired" ELSE StatesOf[q][l]
      BY <1>1, <2>2
    <3>2. "expired" \in SlotStates /\ "eod" \in Kinds
      BY <1>0 DEF SlotStates
    <3> QED BY <1>1, <3>1, <3>2, OneEntry
  <2>4. CASE slots[p]["eod"].state = "pending"
    <3>1. StatesOf[p]["eod"] = "pending"
      BY <1>0, <1>1, <2>4
    <3>2. Slots!Expire(p)
      BY <2>1, <2>3, <3>1 DEF Slots!Expire, StatesOf
    <3> QED BY <3>2 DEF Slots!Next
  <2>5. CASE slots[p]["eod"].state = "expired"
    <3>1. StatesOf[p]["eod"] = "expired"
      BY <1>0, <1>1, <2>5
    <3>2. StatesOf' = StatesOf
      BY <1>0, <1>1, <2>3, <3>1
    <3> QED BY <2>1, <3>2 DEF Slots!vars, StatesOf
  <2> QED BY <2>1, <2>4, <2>5
<1>4. ASSUME NEW p \in Positions, PositionClosed(p)
      PROVE  [Slots!Next]_(Slots!vars)
  <2>1. /\ slots' = [slots EXCEPT ![p] = NoSlots] /\ closed' = closed \cup {p}
        /\ UNCHANGED visible
    BY <1>4 DEF PositionClosed, ConsumerUnchanged
  <2>2. \A q \in Positions, l \in Kinds :
          slots'[q][l].state = IF q = p THEN "none" ELSE slots[q][l].state
    BY <1>0, <2>1 DEF NoSlots, NoSlot
  <2>3. StatesOf' = [StatesOf EXCEPT ![p] = Slots!NoSlots]
    <3>1. \A q \in Positions, l \in Kinds :
            StatesOf'[q][l] = IF q = p THEN Slots!NoSlots[l] ELSE StatesOf[q][l]
      BY <1>0, <1>1, <2>2
    <3>2. Slots!NoSlots \in [Kinds -> SlotStates]
      BY <1>0 DEF SlotStates
    <3> QED BY <1>1, <3>1, <3>2, OneRow
  <2>4. Slots!Finish(p)
    BY <2>1, <2>3 DEF Slots!Finish, StatesOf
  <2> QED BY <2>4 DEF Slots!Next
<1>5. ASSUME NEW p \in Positions, NEW k \in Kinds, Acknowledge(p, k)
      PROVE  [Slots!Next]_(Slots!vars)
  <2>1. /\ slots[p][k] # NoSlot /\ slots[p][k].state # "expired"
        /\ slots' = [slots EXCEPT ![p][k].state = "acknowledged"]
        /\ UNCHANGED <<visible, closed>>
    BY <1>5 DEF Acknowledge, ConsumerUnchanged
  <2>2. \A q \in Positions, l \in Kinds :
          slots'[q][l].state = IF q = p /\ l = k THEN "acknowledged" ELSE slots[q][l].state
    BY <1>0, <2>1 DEF SlotRecords
  <2>3. StatesOf' = [StatesOf EXCEPT ![p][k] = "acknowledged"]
    <3>1. \A q \in Positions, l \in Kinds :
            StatesOf'[q][l] = IF q = p /\ l = k THEN "acknowledged" ELSE StatesOf[q][l]
      BY <1>1, <2>2
    <3>2. "acknowledged" \in SlotStates /\ k \in Kinds
      BY <1>0 DEF SlotStates
    <3> QED BY <1>1, <3>1, <3>2, OneEntry
  <2>4. StatesOf[p][k] \notin {"none", "expired"}
    BY <1>0, <1>1, <2>1 DEF SlotsOK
  <2>5. Slots!Acknowledge(p, k)
    BY <1>0, <2>1, <2>3, <2>4 DEF Slots!Acknowledge, StatesOf
  <2> QED BY <1>0, <2>5 DEF Slots!Next
<1>6. ASSUME NEW p \in Positions, NEW k \in Kinds, Invalid(p, k)
      PROVE  [Slots!Next]_(Slots!vars)
  <2>1. /\ slots[p][k].state = "pending"
        /\ slots' = [slots EXCEPT ![p][k] = NoSlot]
        /\ UNCHANGED <<visible, closed>>
    BY <1>6 DEF Invalid, ConsumerUnchanged
  <2>2. \A q \in Positions, l \in Kinds :
          slots'[q][l].state = IF q = p /\ l = k THEN "none" ELSE slots[q][l].state
    BY <1>0, <2>1 DEF NoSlot
  <2>3. StatesOf' = [StatesOf EXCEPT ![p][k] = "none"]
    <3>1. \A q \in Positions, l \in Kinds :
            StatesOf'[q][l] = IF q = p /\ l = k THEN "none" ELSE StatesOf[q][l]
      BY <1>1, <2>2
    <3>2. "none" \in SlotStates /\ k \in Kinds
      BY <1>0 DEF SlotStates
    <3> QED BY <1>1, <3>1, <3>2, OneEntry
  <2>4. StatesOf[p][k] # "none"
    BY <1>0, <1>1, <2>1
  <2>5. Slots!Retract(p, k)
    BY <1>0, <2>1, <2>3, <2>4 DEF Slots!Retract, StatesOf
  <2> QED BY <1>0, <2>5 DEF Slots!Next
<1>7. CASE ~Process /\ UNCHANGED <<slots, closed>>
  <2>1. UNCHANGED visible
    BY <1>7, QuietStep DEF Quiet, ATick, Tick
  <2> QED BY <1>7, <2>1 DEF Slots!vars
<1> QED BY <1>2, <1>3, <1>4, <1>5, <1>6, <1>7, SlotsChange

(* The monitor's slots keep the promise the execution engine relies on.    *)
THEOREM SlotContractTheorem == Spec => SlotContract
<1>1. Spec => Slots!Init /\ [][Slots!Next]_(Slots!vars)
  BY ContractInit, ContractStep, MonitorInductive, PTL DEF Spec
<1> QED BY <1>1 DEF SlotContract, Slots!Spec
=============================================================================
