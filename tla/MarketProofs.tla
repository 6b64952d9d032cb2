------------------------------ MODULE MarketProofs ------------------------------
(***************************************************************************)
(* Proofs about the components of MCMarket, for every value of their       *)
(* constants: the live relay and the measurement of streaming, and what    *)
(* DataTrue says of them and of the components of DataPathProofs.          *)
(***************************************************************************)
EXTENDS MCMarket, DataPathProofs

---------------------------------------------------------------------------
(* The live relay                                                          *)

RelayTick == [sym : WatchedSymbols, minute : RelayMinutes, n : 1 .. relayTicks]

RelayInv ==
  /\ relayTicks \in Nat /\ active \subseteq WatchedSymbols /\ RelayTypeOK
  /\ relayQueue \in Seq(RelayTick)
  /\ DOMAIN bars = WatchedSymbols /\ DOMAIN snapshots = WatchedSymbols
  /\ since \in [WatchedSymbols -> Nat]
  /\ \A s \in WatchedSymbols : bars[s].ticks \subseteq 1 .. relayTicks
  /\ SnapshotsFresh

LEMMA RelayStart == RelayInit => RelayInv
<1> SUFFICES ASSUME RelayInit PROVE RelayInv
  OBVIOUS
<1> USE RelayAssumption DEF RelayInit
<1>1. RelayTypeOK
  BY FS_EmptySet DEF RelayTypeOK
<1>2. relayQueue \in Seq(RelayTick)
  OBVIOUS
<1>3. SnapshotsFresh /\ \A s \in WatchedSymbols : bars[s].ticks \subseteq 1 .. relayTicks
  BY DEF SnapshotsFresh, NoBar
<1> QED BY <1>1, <1>2, <1>3 DEF RelayInv

LEMMA RelayStep ==
  ASSUME RelayInv, [RelayNext]_relayVars
  PROVE  RelayInv'
<1> USE RelayAssumption DEF RelayInv, RelayTypeOK
<1>1. CASE SetActive
  <2> USE <1>1 DEF SetActive
  <2>1. PICK new \in SUBSET WatchedSymbols :
          /\ Cardinality(new) <= MaxWatched /\ active' = new
          /\ bars' = [s \in WatchedSymbols |-> IF s \in active \ new THEN NoBar ELSE bars[s]]
          /\ dirty' = dirty \ (active \ new)
          /\ since' = [s \in WatchedSymbols |-> IF s \in new \ active THEN relayTicks ELSE since[s]]
    OBVIOUS
  <2>2. RelayTypeOK' /\ active' \subseteq WatchedSymbols
    BY <2>1
  <2>3. relayQueue' \in Seq(RelayTick')
    BY DEF RelayTick
  <2>4. \A s \in WatchedSymbols : bars'[s].ticks \subseteq 1 .. relayTicks'
    BY <2>1 DEF NoBar
  <2>5. SnapshotsFresh'
    <3>1. ASSUME NEW s \in active', \E n \in bars'[s].ticks : n > since'[s]
          PROVE  s \in dirty' \cup flushing' \/ snapshots'[s] = bars'[s]
      <4>1. bars[s].ticks \subseteq 1 .. relayTicks /\ s \in WatchedSymbols
        BY <2>1
      <4>2. bars'[s] = bars[s]
        BY <2>1, <4>1
      <4>3. s \in active
        BY <2>1, <3>1, <4>1, <4>2
      <4>4. since'[s] = since[s] /\ (s \in dirty => s \in dirty')
        BY <2>1, <4>1, <4>3
      <4> QED BY <3>1, <4>2, <4>3, <4>4 DEF SnapshotsFresh
    <3> QED BY <3>1 DEF SnapshotsFresh
  <2>6. since' \in [WatchedSymbols -> Nat]
    BY <2>1
  <2> QED BY <2>1, <2>2, <2>3, <2>4, <2>5, <2>6
<1>2. CASE PriceUpdated
  <2> USE <1>2 DEF PriceUpdated
  <2>1. PICK s \in active, m \in RelayMinutes :
          relayQueue' = Append(relayQueue, [sym |-> s, minute |-> m, n |-> relayTicks'])
    OBVIOUS
  <2>2. RelayTick \subseteq RelayTick' /\ [sym |-> s, minute |-> m, n |-> relayTicks'] \in RelayTick'
    BY DEF RelayTick
  <2>3. relayQueue \in Seq(RelayTick')
    BY <2>2
  <2>4. relayQueue' \in Seq(RelayTick')
    BY <2>1, <2>2, <2>3
  <2>5. SnapshotsFresh'
    BY DEF SnapshotsFresh
  <2>6. \A r \in WatchedSymbols : bars'[r].ticks \subseteq 1 .. relayTicks'
    OBVIOUS
  <2> QED BY <2>4, <2>5, <2>6
<1>3. CASE ApplyTick
  <2> USE <1>3 DEF ApplyTick
  <2> DEFINE t == Head(relayQueue)
  <2>1. t \in RelayTick /\ relayQueue' \in Seq(RelayTick)
    OBVIOUS
  <2>2. t.sym \in WatchedSymbols /\ t.n \in 1 .. relayTicks
    BY <2>1 DEF RelayTick
  <2>3. /\ bars' = [bars EXCEPT ![t.sym] = Applied(@, t)] /\ dirty' = dirty \cup {t.sym}
    OBVIOUS
  <2> HIDE DEF t
  <2>4. /\ bars'[t.sym] = Applied(bars[t.sym], t) /\ DOMAIN bars' = WatchedSymbols
        /\ \A s \in WatchedSymbols \ {t.sym} : bars'[s] = bars[s]
    BY <2>2, <2>3
  <2>5. Applied(bars[t.sym], t).ticks \subseteq 1 .. relayTicks
    BY <2>2 DEF Applied
  <2>6. SnapshotsFresh'
    BY <2>2, <2>3, <2>4 DEF SnapshotsFresh
  <2>7. relayQueue' \in Seq(RelayTick')
    BY <2>1 DEF RelayTick
  <2> QED BY <2>2, <2>3, <2>4, <2>5, <2>6, <2>7
<1>4. CASE BeginFlush
  <2>1. relayQueue' \in Seq(RelayTick')
    BY <1>4 DEF BeginFlush, RelayTick
  <2> QED BY <1>4, <2>1 DEF BeginFlush, SnapshotsFresh
<1>5. CASE PublishBar
  <2>1. relayQueue' \in Seq(RelayTick')
    BY <1>5 DEF PublishBar, RelayTick
  <2>2. PICK s \in flushing :
          /\ flushing' = flushing \ {s}
          /\ snapshots' = IF Publishable(s) THEN [snapshots EXCEPT ![s] = bars[s]] ELSE snapshots
    BY <1>5 DEF PublishBar
  <2>3. SnapshotsFresh'
    <3>1. ASSUME NEW r \in active', \E n \in bars'[r].ticks : n > since'[r]
          PROVE  r \in dirty' \cup flushing' \/ snapshots'[r] = bars'[r]
      <4>1. bars' = bars /\ active' = active /\ dirty' = dirty /\ since' = since
        BY <1>5 DEF PublishBar
      <4>2. CASE r = s
        <5>1. bars[s] # NoBar
          BY <3>1, <4>1, <4>2 DEF NoBar
        <5> QED BY <2>2, <3>1, <4>1, <4>2, <5>1 DEF Publishable
      <4>3. CASE r # s
        BY <2>2, <3>1, <4>1, <4>3 DEF SnapshotsFresh
      <4> QED BY <4>2, <4>3
    <3> QED BY <3>1 DEF SnapshotsFresh
  <2> QED BY <1>5, <2>1, <2>2, <2>3 DEF PublishBar
<1>6. CASE UNCHANGED relayVars
  <2>1. relayQueue' \in Seq(RelayTick')
    BY <1>6 DEF relayVars, RelayTick
  <2> QED BY <1>6, <2>1 DEF relayVars, SnapshotsFresh
<1> QED BY <1>1, <1>2, <1>3, <1>4, <1>5, <1>6 DEF RelayNext

---------------------------------------------------------------------------
(* The measurement of streaming coverage                                   *)

LEMMA SumOverIs ==
  ASSUME NEW f
  PROVE  SumOver(f) = SumOf(DOMAIN f, f)
<1> DEFINE D == DOMAIN f
           Body(it, t) == IF t = {} THEN 0
                          ELSE f[CHOOSE y \in t : TRUE] + it[t \ {CHOOSE y \in t : TRUE}]
<1>1. SumOver(f) = (CHOOSE it : it = [t \in SUBSET D |-> Body(it, t)])[D]
  BY DEF SumOver, FoldFunction, FoldFunctionOnSet, MapThenFoldSet
<1>2. ASSUME NEW it, NEW t \in SUBSET D
      PROVE  SumUp(f, it, t) = Body(it, t)
  BY DEF SumUp, Choice
<1>3. \A it : (it = [t \in SUBSET D |-> Body(it, t)]) <=> IsSum(D, f, it)
  <2> HIDE DEF Body, D
  <2> QED BY <1>2 DEF IsSum
<1>4. (CHOOSE it : it = [t \in SUBSET D |-> Body(it, t)]) = (CHOOSE it : IsSum(D, f, it))
  <2> HIDE DEF Body, D
  <2> QED BY <1>3
<1> QED BY <1>1, <1>4 DEF SumOf

LEMMA SumOverChanges ==
  ASSUME NEW D, IsFiniteSet(D), NEW f \in [D -> Int], NEW x \in D, NEW v \in Int
  PROVE  /\ SumOver(f) \in Int
         /\ SumOver([f EXCEPT ![x] = v]) = SumOver(f) - f[x] + v
<1>1. PICK g : g = [f EXCEPT ![x] = v]
  OBVIOUS
<1>2. g \in [D -> Int] /\ DOMAIN g = D /\ DOMAIN f = D /\ g[x] = v /\ \A y \in D \ {x} : f[y] = g[y]
  BY <1>1
<1>3. Weights(D, f) /\ Weights(D, g) /\ Alike(D \ {x}, f, g)
  BY <1>2 DEF Weights, Alike
<1>4. SumOf(D, g) = SumOf(D, f) - f[x] + g[x] /\ SumOf(D, f) \in Int
  BY ONLY IsFiniteSet(D), x \in D, <1>3, SumChanged, TotalInt
<1> QED BY <1>1, <1>2, <1>4, SumOverIs

LEMMA SumOverZeros ==
  ASSUME NEW D, IsFiniteSet(D)
  PROVE  SumOver([x \in D |-> 0]) = 0
<1> DEFINE z == [x \in D |-> 0]
           Wrong == {n \in Nat : \E E : IsFiniteSet(E) /\ Cardinality(E) = n /\ SumOf(E, [x \in E |-> 0]) # 0}
<1>1. ASSUME Wrong # {} PROVE FALSE
  <2>1. PICK n \in Wrong : \A m \in Wrong : n <= m
    <3> HIDE DEF Wrong
    <3>1. Wrong \in SUBSET Nat
      BY DEF Wrong
    <3> QED BY <1>1, <3>1, LeastNumber
  <2>2. PICK E : IsFiniteSet(E) /\ Cardinality(E) = n /\ SumOf(E, [x \in E |-> 0]) # 0
    BY <2>1
  <2>3. E # {}
    BY <2>2, TotalOfNone
  <2>4. PICK e \in E : TRUE
    BY <2>3
  <2> DEFINE F == E \ {e}
             w == [x \in E |-> 0]
             v == [x \in F |-> 0]
  <2>5. IsFiniteSet(F) /\ Cardinality(F) = n - 1 /\ Cardinality(F) \in Nat /\ n \in Nat
    BY <2>1, <2>2, <2>4, FS_RemoveElement, FS_CardinalityType
  <2>6. Weights(E, w) /\ Weights(F, v) /\ Alike(F, v, w) /\ w[e] = 0
    BY DEF Weights, Alike
  <2>7. SumOf(F, v) = 0
    <3>1. SUFFICES ASSUME SumOf(F, v) # 0 PROVE FALSE
      OBVIOUS
    <3>2. n - 1 \in Wrong
      <4> HIDE DEF F
      <4> QED BY <2>5, <3>1
    <3> HIDE DEF Wrong
    <3>3. n <= n - 1
      BY <2>1, <3>2
    <3> QED BY <2>5, <3>3
  <2> HIDE DEF w, v
  <2>8. SumOf(E, w) = SumOf(F, v) + w[e]
    BY ONLY <2>2, <2>4, <2>6, SumGrows
  <2> QED BY <2>2, <2>6, <2>7, <2>8 DEF w
<1>2. Cardinality(D) \in Nat
  BY FS_CardinalityType
<1>3. SumOf(D, z) = 0
  <2>1. SUFFICES ASSUME SumOf(D, z) # 0 PROVE FALSE
    OBVIOUS
  <2>2. Cardinality(D) \in Wrong
    BY <1>2, <2>1
  <2> HIDE DEF Wrong
  <2> QED BY <1>1, <2>2
<1> QED BY <1>3, SumOverIs

(* What is counted of the messages                                         *)
CoverageStats == [count : Nat, last : Int, high : Nat, back : Nat, again : Nat]
KeptIn(s, field) == SumOver([c \in CoverageChannels |-> s[c][field]])

LEMMA KeptChanges ==
  ASSUME NEW s \in [CoverageChannels -> CoverageStats], NEW c \in CoverageChannels, NEW e \in CoverageStats,
         NEW field \in {"count", "back", "again"}
  PROVE  /\ KeptIn(s, field) \in Int
         /\ KeptIn([s EXCEPT ![c] = e], field) = KeptIn(s, field) - s[c][field] + e[field]
<1> DEFINE D == CoverageChannels
           f == [x \in D |-> s[x][field]]
           t == [s EXCEPT ![c] = e]
           g == [x \in D |-> t[x][field]]
<1>1. f \in [D -> Int] /\ e[field] \in Int
  <2>1. \A r \in CoverageStats : r[field] \in Int
    BY DEF CoverageStats
  <2> QED BY <2>1
<1>2. g = [f EXCEPT ![c] = e[field]]
  <2>1. t \in [D -> CoverageStats] /\ t[c] = e /\ \A x \in D \ {c} : t[x] = s[x]
    OBVIOUS
  <2> HIDE DEF t
  <2> QED BY <2>1
<1>3. f[c] = s[c][field]
  OBVIOUS
<1> HIDE DEF f, g
<1>4. SumOver(f) \in Int /\ SumOver([f EXCEPT ![c] = e[field]]) = SumOver(f) - f[c] + e[field]
  BY <1>1, SumOverChanges, CoverageAssumption
<1> QED BY <1>2, <1>3, <1>4 DEF KeptIn, f, g

CovPlaces ==
  {"new", "diagnostics", "bridge", "connecting", "subscribing", "waiting", "measuring", "closing",
   "end diagnostics", "end bridge", "done"}
CovReasons ==
  {"none", "universe_read_failed", "start_diagnostics_unavailable", "websocket_connect_failed",
   "subscribe_send_failed", "acknowledgement_timeout", "subscription_rejected",
   "connection_closed_during_setup", "stop_requested", "connection_lost", "window_elapsed", "cancelled"}
CovReads == [ok : BOOLEAN, id : Nat, count : Nat]
CovMeasurements ==
  [at : CovPlaces, status : {"not_started", "running", "failed_setup", "interrupted", "completed"},
   reason : CovReasons, ended : Int]
CovCollectors ==
  [phase : {"idle", "setup", "measuring"}, pending : SUBSET CoverageChannels, start : Int,
   rejected : BOOLEAN, samples : 0 .. MaxSamples, dropped : Nat]
CovSockets == [state : {"none", "reading", "closed"}, sent : SUBSET CoverageChannels, closed : Int]

CovMeasures == measurement \in CovMeasurements /\ second \in Nat
CovSocketed == socket \in CovSockets
CovCollected ==
  /\ collector \in CovCollectors /\ seen \in Nat /\ tally \in [Fates -> Nat]
  /\ stats \in [CoverageChannels -> CoverageStats] /\ lately.ignored \in Nat
CovBacked ==
  /\ reads \in [start : CovReads, end : CovReads, bridgeStart : CovReads, bridgeEnd : CovReads]
  /\ backend \in [provider : Nat, bridge : Nat, excluded : Nat, changes : Nat]
  /\ lately \in [excluded : Nat, provided : SUBSET Nat, ignored : Nat]

(* Messages are counted; those of the window came in it.                   *)
CovWindow ==
  /\ collector.phase = "measuring" => collector.pending = {} /\ 0 <= collector.start /\ collector.start <= second
  /\ collector.phase # "measuring" => \A c \in CoverageChannels : stats[c].count = 0
  /\ \A c \in CoverageChannels : stats[c].count = 0 => stats[c].last = -1
  /\ \A c \in CoverageChannels : stats[c].count > 0 =>
       /\ stats[c].last <= Duration
       /\ stats[c].last + collector.start <= (IF socket.state = "closed" THEN socket.closed ELSE second)

(* Where the measurement is, and what it will tell of its end              *)
CovEnds ==
  /\ measurement.at \in {"new", "diagnostics", "bridge", "connecting"} =>
       collector.phase = "idle" /\ socket.state = "none"
  /\ measurement.at \in {"subscribing", "waiting", "measuring"} => socket.state # "none"
  /\ measurement.at = "measuring" => collector.phase = "measuring"
  /\ measurement.at \in {"end diagnostics", "end bridge", "done"} => socket.state # "reading"
  /\ socket.state = "closed" => socket.closed <= second
  /\ measurement.status = "completed" =>
       /\ collector.phase = "measuring" /\ measurement.ended = collector.start + Duration
       /\ measurement.ended <= second /\ socket.state # "none"
       /\ socket.state = "closed" => measurement.ended <= socket.closed
  /\ measurement.status = "completed" <=> measurement.reason = "window_elapsed"
  /\ measurement.reason = "connection_lost" => socket.state = "closed" /\ measurement.ended = socket.closed

(* What the backend did since the first reads                              *)
CovBackend ==
  /\ backend.bridge <= backend.provider
  /\ reads.bridgeStart.ok = TRUE =>
       /\ reads.bridgeStart.id <= backend.provider
       /\ reads.bridgeStart.id # 0 /\ reads.bridgeStart.id = backend.bridge =>
            backend.excluded = reads.bridgeStart.count + lately.excluded
  /\ reads.bridgeEnd.ok = TRUE =>
       measurement.at = "done" /\ reads.bridgeEnd.id = backend.bridge /\ reads.bridgeEnd.count = backend.excluded
  /\ IsFiniteSet(lately.provided)
  /\ backend.provider \in lately.provided
  /\ reads.start.ok = TRUE => reads.start.id \in lately.provided
  /\ reads.end.ok = TRUE => reads.end.id \in lately.provided /\ measurement.at \notin {"new", "diagnostics"}

CovTypes == CovMeasures /\ CovSocketed /\ CovCollected /\ CovBacked
CovInv == CovTypes /\ EveryMessageCounted /\ CovWindow /\ CovEnds /\ CovBackend

LEMMA CovStart == CoverageInit => CovInv
<1> SUFFICES ASSUME CoverageInit PROVE CovInv
  OBVIOUS
<1> USE CoverageAssumption DEF CoverageInit
<1>1. CovTypes
  <2>1. CovMeasures
    BY DEF CovMeasures, CovMeasurements, CovPlaces, CovReasons
  <2>2. CovSocketed
    BY DEF CovSocketed, CovSockets
  <2>3. CovCollected
    <3>1. collector \in CovCollectors
      BY DEF CovCollectors
    <3>2. stats \in [CoverageChannels -> CoverageStats]
      BY DEF NoStats, CoverageStats
    <3> QED BY <3>1, <3>2 DEF CovCollected
  <2>4. CovBacked
    BY DEF CovBacked, CovReads, Unread
  <2> QED BY <2>1, <2>2, <2>3, <2>4 DEF CovTypes
<1>2. EveryMessageCounted
  <2>1. IsFiniteSet(Fates)
    <3>1. IsFiniteSet({"aside"}) /\ Fates = {"aside"} \cup {"anomaly"}
      BY FS_Singleton DEF Fates
    <3> QED BY <3>1, FS_AddElement
  <2>2. SumOver(tally) = 0 /\ tally["anomaly"] = 0
    BY <2>1, SumOverZeros DEF Fates
  <2>3. ASSUME NEW field \in {"count", "back", "again"}
        PROVE  Kept(field) = 0
    <3>1. [c \in CoverageChannels |-> stats[c][field]] = [c \in CoverageChannels |-> 0]
      BY DEF NoStats
    <3> QED BY <3>1, SumOverZeros DEF Kept
  <2>4. Cardinality(CoverageChannels \ collector.pending) = 0
    BY FS_EmptySet
  <2> QED BY <2>2, <2>3, <2>4 DEF EveryMessageCounted
<1>3. CovWindow
  BY DEF CovWindow, NoStats
<1>4. CovEnds
  BY DEF CovEnds
<1>5. CovBackend
  <2>1. IsFiniteSet(lately.provided)
    BY FS_Singleton
  <2> QED BY <2>1 DEF CovBackend, Unread
<1> QED BY <1>1, <1>2, <1>3, <1>4, <1>5 DEF CovInv

(* The task of the measurement                                             *)
LEMMA CovReaches ==
  ASSUME measurement \in CovMeasurements, NEW at \in CovPlaces, Reaches(at)
  PROVE  /\ measurement' \in CovMeasurements /\ measurement'.at = at /\ measurement'.status = measurement.status
         /\ measurement'.reason = measurement.reason /\ measurement'.ended = measurement.ended
<1>1. measurement' = [at |-> at, status |-> measurement.status, reason |-> measurement.reason,
                      ended |-> measurement.ended]
  BY DEF Reaches, CovMeasurements
<1> QED BY <1>1 DEF CovMeasurements

LEMMA CovEnded ==
  ASSUME NEW status \in {"failed_setup", "interrupted", "completed"}, NEW reason \in CovReasons,
         NEW at \in Int, EndsAs(status, reason, at)
  PROVE  /\ measurement' \in CovMeasurements /\ measurement'.at = "closing" /\ measurement'.status = status
         /\ measurement'.reason = reason /\ measurement'.ended = at
BY DEF EndsAs, CovMeasurements, CovPlaces

LEMMA CovStands ==
  ASSUME CovInv, UNCHANGED <<seen, tally, stats>>, lately'.ignored = lately.ignored,
         collector' \in CovCollectors,
         UNCHANGED <<collector.pending, collector.samples, collector.dropped>>,
         CovMeasures', CovSocketed', CovBacked', CovWindow', CovEnds', CovBackend'
  PROVE  CovInv'
<1>1. CovCollected'
  BY DEF CovInv, CovTypes, CovCollected
<1>2. EveryMessageCounted'
  BY DEF CovInv, EveryMessageCounted, Kept
<1> QED BY <1>1, <1>2 DEF CovInv, CovTypes

LEMMA CovFails ==
  ASSUME CovInv, NEW reason \in CovReasons \ {"window_elapsed", "connection_lost"},
         NEW status \in {"failed_setup", "interrupted"}, NEW ended \in Int, EndsAs(status, reason, ended),
         measurement.at # "done",
         CollectorStands, UNCHANGED <<second, reads, socket, backend, lately>>
  PROVE  CovInv'
<1> USE DEF CovInv, CovTypes, CollectorStands
<1>1. /\ measurement' \in CovMeasurements /\ measurement'.at = "closing" /\ measurement'.status = status
      /\ measurement'.reason = reason
  BY CovEnded
<1>2. CovMeasures' /\ CovSocketed' /\ CovBacked'
  BY <1>1 DEF CovMeasures, CovSocketed, CovBacked
<1>3. CovWindow'
  BY DEF CovWindow
<1>4. CovEnds'
  BY <1>1 DEF CovEnds
<1>5. CovBackend'
  BY <1>1 DEF CovBackend
<1> QED BY <1>2, <1>3, <1>4, <1>5, CovStands DEF CovCollected

LEMMA CovStarts ==
  ASSUME CovInv, StartMeasuring \/ ReadDiagnosticsStart \/ ReadBridgeStart
  PROVE  CovInv'
<1> USE DEF CovInv, CovTypes, CollectorStands
<1>0. measurement \in CovMeasurements /\ measurement.ended \in Int
  BY DEF CovMeasures, CovMeasurements
<1>1. CASE StartMeasuring
  <2>1. CASE FailsSetup("universe_read_failed")
    BY <1>0, <1>1, <2>1, CovFails DEF StartMeasuring, FailsSetup, CovReasons
  <2>2. CASE measurement' = [measurement EXCEPT !.at = "diagnostics", !.status = "running"]
    <3>1. PICK m \in CovMeasurements : m = measurement
      BY <1>0
    <3>2. [m EXCEPT !.at = "diagnostics"] = [at |-> "diagnostics", status |-> m.status, reason |-> m.reason, ended |-> m.ended]
      BY ONLY <3>1 DEF CovMeasurements
    <3>3. [[at |-> "diagnostics", status |-> m.status, reason |-> m.reason, ended |-> m.ended] EXCEPT !.status = "running"]
            = [at |-> "diagnostics", status |-> "running", reason |-> m.reason, ended |-> m.ended]
      BY ONLY TRUE
    <3>4. measurement' = [at |-> "diagnostics", status |-> "running", reason |-> m.reason, ended |-> m.ended]
      BY ONLY <2>2, <3>1, <3>2, <3>3
    <3>5. /\ measurement' \in CovMeasurements /\ measurement'.at = "diagnostics" /\ measurement'.status = "running"
          /\ measurement'.reason = measurement.reason /\ measurement'.ended = measurement.ended
      BY <3>1, <3>4 DEF CovMeasurements, CovPlaces
    <3>6. UNCHANGED <<second, reads, socket, backend, lately, collector, seen, tally, stats>> /\ measurement.at = "new"
      BY <1>1 DEF StartMeasuring
    <3>7. CovMeasures' /\ CovSocketed' /\ CovBacked'
      BY <3>5, <3>6 DEF CovMeasures, CovSocketed, CovBacked
    <3>8. CovWindow'
      BY <3>6 DEF CovWindow
    <3>9. measurement.status # "completed"
      BY <3>6 DEF CovEnds
    <3>10. CovEnds'
      BY <3>5, <3>6, <3>9 DEF CovEnds
    <3>11. CovBackend'
      BY <3>5, <3>6 DEF CovBackend
    <3> QED BY <3>6, <3>7, <3>8, <3>10, <3>11, CovStands DEF CovCollected
  <2> QED BY <1>1, <2>1, <2>2 DEF StartMeasuring
<1>2. CASE ReadDiagnosticsStart
  <2>1. CASE FailsSetup("start_diagnostics_unavailable") /\ UNCHANGED <<reads, lately>>
    BY <1>0, <1>2, <2>1, CovFails DEF ReadDiagnosticsStart, FailsSetup, CovReasons
  <2>2. CASE /\ reads' = [reads EXCEPT !.start = ProviderRead] /\ Reaches("bridge")
             /\ lately' = [lately EXCEPT !.provided = {backend.provider}]
    <3>1. /\ measurement' \in CovMeasurements /\ measurement'.at = "bridge"
          /\ measurement'.status = measurement.status
          /\ measurement'.reason = measurement.reason /\ measurement'.ended = measurement.ended
      BY <1>0, <2>2, CovReaches DEF CovPlaces
    <3>2. UNCHANGED <<second, socket, backend, collector, seen, tally, stats>> /\ measurement.at = "diagnostics"
      BY <1>2 DEF ReadDiagnosticsStart
    <3>3. /\ lately' = [excluded |-> lately.excluded, provided |-> {backend.provider}, ignored |-> lately.ignored]
          /\ backend.provider \in Nat /\ lately.excluded \in Nat /\ lately.ignored \in Nat
      BY <2>2 DEF CovBacked
    <3>4. reads' = [start |-> ProviderRead, end |-> reads.end, bridgeStart |-> reads.bridgeStart,
                    bridgeEnd |-> reads.bridgeEnd]
      BY <2>2 DEF CovBacked
    <3>5. ProviderRead \in CovReads
      BY <3>3 DEF ProviderRead, CovReads
    <3>6. CovMeasures' /\ CovSocketed' /\ CovBacked'
      <4>1. reads' \in [start : CovReads, end : CovReads, bridgeStart : CovReads, bridgeEnd : CovReads]
        BY <3>4, <3>5 DEF CovBacked
      <4>2. lately' \in [excluded : Nat, provided : SUBSET Nat, ignored : Nat]
        BY <3>3
      <4> QED BY <3>1, <3>2, <4>1, <4>2 DEF CovMeasures, CovSocketed, CovBacked
    <3>7. CovWindow'
      BY <3>2 DEF CovWindow
    <3>8. CovEnds'
      BY <3>1, <3>2 DEF CovEnds
    <3>9. CovBackend'
      <4>1. IsFiniteSet(lately'.provided) /\ backend'.provider \in lately'.provided /\ reads'.start.id = backend.provider
            /\ lately'.excluded = lately.excluded
        BY <3>2, <3>3, <3>4, FS_Singleton DEF ProviderRead
      <4>2. reads.end.ok # TRUE /\ reads'.end = reads.end /\ reads'.bridgeStart = reads.bridgeStart
            /\ reads'.bridgeEnd = reads.bridgeEnd /\ reads.bridgeEnd.ok # TRUE
        BY <3>2, <3>4 DEF CovBackend
      <4> QED BY <3>1, <3>2, <4>1, <4>2 DEF CovBackend
    <3> QED BY <3>2, <3>3, <3>6, <3>7, <3>8, <3>9, CovStands DEF CovCollected
  <2> QED BY <1>2, <2>1, <2>2 DEF ReadDiagnosticsStart
<1>3. CASE ReadBridgeStart
  <2>1. PICK r \in {BridgeRead, Unread} : reads' = [reads EXCEPT !.bridgeStart = r]
    BY <1>3 DEF ReadBridgeStart
  <2>2. /\ measurement' \in CovMeasurements /\ measurement'.at = "connecting"
        /\ measurement'.status = measurement.status
        /\ measurement'.reason = measurement.reason /\ measurement'.ended = measurement.ended
    BY <1>0, <1>3, CovReaches DEF ReadBridgeStart, CovPlaces
  <2>3. UNCHANGED <<second, socket, backend, collector, seen, tally, stats>> /\ measurement.at = "bridge"
    BY <1>3 DEF ReadBridgeStart
  <2>4. /\ lately' = [excluded |-> 0, provided |-> lately.provided, ignored |-> lately.ignored]
        /\ lately.provided \in SUBSET Nat /\ lately.ignored \in Nat
        /\ backend.bridge \in Nat /\ backend.excluded \in Nat
    BY <1>3 DEF CovBacked, ReadBridgeStart
  <2>5. /\ reads' = [start |-> reads.start, end |-> reads.end, bridgeStart |-> r, bridgeEnd |-> reads.bridgeEnd]
        /\ r \in CovReads
    <3>1. r \in CovReads
      <4>1. BridgeRead \in CovReads
        BY <2>4 DEF BridgeRead, CovReads
      <4>2. Unread \in CovReads
        BY DEF Unread, CovReads
      <4> QED BY <2>1, <4>1, <4>2
    <3> QED BY <2>1, <3>1 DEF CovBacked
  <2>6. CovMeasures' /\ CovSocketed' /\ CovBacked'
    <3>1. reads' \in [start : CovReads, end : CovReads, bridgeStart : CovReads, bridgeEnd : CovReads]
      BY <2>5 DEF CovBacked
    <3>2. lately' \in [excluded : Nat, provided : SUBSET Nat, ignored : Nat]
      BY <2>4
    <3> QED BY <2>2, <2>3, <3>1, <3>2 DEF CovMeasures, CovSocketed, CovBacked
  <2>7. CovWindow'
    BY <2>3 DEF CovWindow
  <2>8. CovEnds'
    BY <2>2, <2>3 DEF CovEnds
  <2>9. CovBackend'
    <3>1. r = Unread \/ (r.id = backend.bridge /\ r.count = backend.excluded)
      BY <2>1 DEF BridgeRead
    <3>2. r.ok = TRUE => r.id = backend.bridge /\ r.count = backend.excluded
      BY <3>1 DEF Unread
    <3>3. lately'.excluded = 0 /\ lately'.provided = lately.provided /\ reads'.bridgeStart = r
          /\ reads'.start = reads.start /\ reads'.end = reads.end /\ reads'.bridgeEnd = reads.bridgeEnd
          /\ reads.bridgeEnd.ok # TRUE
      BY <2>3, <2>4, <2>5 DEF CovBackend
    <3> QED BY <2>2, <2>3, <2>4, <3>2, <3>3 DEF CovBackend
  <2> QED BY <2>3, <2>4, <2>6, <2>7, <2>8, <2>9, CovStands DEF CovCollected
<1> QED BY <1>1, <1>2, <1>3

LEMMA CovConnects ==
  ASSUME CovInv, ConnectSocket \/ SendSubscribe
  PROVE  CovInv'
<1> USE DEF CovInv, CovTypes, CollectorStands
<1>0. /\ measurement \in CovMeasurements /\ measurement.ended \in Int /\ collector \in CovCollectors
      /\ socket \in CovSockets /\ lately.ignored \in Nat
  BY DEF CovMeasures, CovMeasurements, CovCollected, CovSocketed
<1>1. CASE ConnectSocket
  <2>1. CASE FailsSetup("websocket_connect_failed") /\ UNCHANGED <<collector, socket>>
    BY <1>0, <1>1, <2>1, CovFails DEF ConnectSocket, FailsSetup, CovReasons
  <2>2. CASE /\ Reaches("subscribing") /\ collector' = [collector EXCEPT !.phase = "setup"]
             /\ socket' = [socket EXCEPT !.state = "reading"]
    <3>1. /\ measurement' \in CovMeasurements /\ measurement'.at = "subscribing"
          /\ measurement'.status = measurement.status
          /\ measurement'.reason = measurement.reason /\ measurement'.ended = measurement.ended
      BY <1>0, <2>2, CovReaches DEF CovPlaces
    <3>2. UNCHANGED <<second, reads, seen, tally, stats, backend, lately>> /\ measurement.at = "connecting"
      BY <1>1 DEF ConnectSocket
    <3>3. collector' = [phase |-> "setup", pending |-> collector.pending, start |-> collector.start,
                        rejected |-> collector.rejected, samples |-> collector.samples, dropped |-> collector.dropped]
      BY <1>0, <2>2 DEF CovCollectors
    <3>4. socket' = [state |-> "reading", sent |-> socket.sent, closed |-> socket.closed]
      BY <1>0, <2>2 DEF CovSockets
    <3>5. collector' \in CovCollectors /\ socket' \in CovSockets
      BY <1>0, <3>3, <3>4 DEF CovCollectors, CovSockets
    <3>6. collector'.phase = "setup" /\ UNCHANGED <<collector.pending, collector.samples, collector.dropped>>
          /\ socket'.state = "reading" /\ collector.phase = "idle"
      BY <3>2, <3>3, <3>4 DEF CovEnds
    <3>7. CovMeasures' /\ CovSocketed' /\ CovBacked'
      BY <3>1, <3>2, <3>5 DEF CovMeasures, CovSocketed, CovBacked
    <3>8. CovWindow'
      BY <3>2, <3>6 DEF CovWindow
    <3>9. CovEnds'
      BY <3>1, <3>2, <3>6 DEF CovEnds
    <3>10. CovBackend'
      BY <3>1, <3>2 DEF CovBackend
    <3> QED BY <3>2, <3>5, <3>6, <3>7, <3>8, <3>9, <3>10, CovStands
  <2> QED BY <1>1, <2>1, <2>2 DEF ConnectSocket
<1>2. CASE SendSubscribe
  <2>1. CASE FailsSetup("subscribe_send_failed") /\ UNCHANGED socket
    BY <1>0, <1>2, <2>1, CovFails DEF SendSubscribe, FailsSetup, CovReasons
  <2>2. CASE \E c \in CoverageChannels \ socket.sent :
               /\ socket' = [socket EXCEPT !.sent = @ \cup {c}]
               /\ IF socket'.sent = CoverageChannels THEN Reaches("waiting") ELSE UNCHANGED measurement
    <3>1. PICK c \in CoverageChannels \ socket.sent :
            /\ socket' = [socket EXCEPT !.sent = @ \cup {c}]
            /\ IF socket'.sent = CoverageChannels THEN Reaches("waiting") ELSE UNCHANGED measurement
      BY <2>2
    <3>2. UNCHANGED <<second, reads, collector, seen, tally, stats, backend, lately>> /\ measurement.at = "subscribing"
      BY <1>2 DEF SendSubscribe
    <3>3. socket' = [state |-> socket.state, sent |-> socket.sent \cup {c}, closed |-> socket.closed]
      BY <1>0, <3>1 DEF CovSockets
    <3>4. socket' \in CovSockets /\ socket'.state = socket.state /\ socket'.closed = socket.closed
      BY <1>0, <3>1, <3>3 DEF CovSockets
    <3>5. /\ measurement' \in CovMeasurements /\ measurement'.at \in {"subscribing", "waiting"}
          /\ measurement'.status = measurement.status
          /\ measurement'.reason = measurement.reason /\ measurement'.ended = measurement.ended
      BY <1>0, <3>1, <3>2, CovReaches DEF CovPlaces
    <3>6. CovMeasures' /\ CovSocketed' /\ CovBacked'
      BY <3>2, <3>4, <3>5 DEF CovMeasures, CovSocketed, CovBacked
    <3>7. CovWindow'
      BY <3>2, <3>4 DEF CovWindow
    <3>8. CovEnds'
      BY <3>2, <3>4, <3>5 DEF CovEnds
    <3>9. CovBackend'
      BY <3>2, <3>5 DEF CovBackend
    <3> QED BY <1>0, <3>2, <3>6, <3>7, <3>8, <3>9, CovStands
  <2> QED BY <1>2, <2>1, <2>2 DEF SendSubscribe
<1> QED BY <1>1, <1>2

LEMMA CovWaits ==
  ASSUME CovInv, WaitReady \/ WindowEnds \/ CancelMeasurement
  PROVE  CovInv'
<1> USE CoverageAssumption DEF CovInv, CovTypes, CollectorStands
<1>0. /\ measurement \in CovMeasurements /\ measurement.ended \in Int /\ collector \in CovCollectors
      /\ socket \in CovSockets /\ lately.ignored \in Nat /\ second \in Nat /\ second \in Int
      /\ collector.start \in Int /\ socket.closed \in Int
  BY DEF CovMeasures, CovMeasurements, CovCollected, CovSocketed, CovCollectors, CovSockets
<1>1. CASE WaitReady
  <2>1. UNCHANGED <<second, reads, socket, backend, lately, collector, seen, tally, stats>> /\ measurement.at = "waiting"
    BY <1>1 DEF WaitReady
  <2>2. \/ FailsSetup("acknowledgement_timeout") \/ FailsSetup("subscription_rejected")
        \/ FailsSetup("connection_closed_during_setup")
        \/ Reaches("measuring") /\ WindowStarted
    BY <1>1 DEF WaitReady, Ready
  <2>3. CASE Reaches("measuring") /\ WindowStarted
    <3>1. /\ measurement' \in CovMeasurements /\ measurement'.at = "measuring"
          /\ measurement'.status = measurement.status
          /\ measurement'.reason = measurement.reason /\ measurement'.ended = measurement.ended
      BY <1>0, <2>3, CovReaches DEF CovPlaces
    <3>2. CovMeasures' /\ CovSocketed' /\ CovBacked'
      BY <2>1, <3>1 DEF CovMeasures, CovSocketed, CovBacked
    <3>3. CovWindow'
      BY <2>1 DEF CovWindow
    <3>4. CovEnds'
      BY <2>1, <2>3, <3>1 DEF CovEnds, WindowStarted
    <3>5. CovBackend'
      BY <2>1, <3>1 DEF CovBackend
    <3> QED BY <1>0, <2>1, <3>2, <3>3, <3>4, <3>5, CovStands
  <2> QED BY <1>0, <2>1, <2>2, <2>3, CovFails DEF FailsSetup, CovReasons
<1>2. CASE WindowEnds
  <2>1. UNCHANGED <<second, reads, socket, backend, lately, collector, seen, tally, stats>> /\ measurement.at = "measuring"
    BY <1>2 DEF WindowEnds
  <2>2. CASE EndsAs("interrupted", "stop_requested", second)
    BY <1>0, <2>1, <2>2, CovFails DEF CovReasons
  <2>3. CASE ReaderDone /\ EndsAs("interrupted", "connection_lost", socket.closed)
    <3>1. /\ measurement' \in CovMeasurements /\ measurement'.at = "closing" /\ measurement'.status = "interrupted"
          /\ measurement'.reason = "connection_lost" /\ measurement'.ended = socket.closed
      BY <1>0, <2>3, CovEnded DEF CovReasons
    <3>2. CovMeasures' /\ CovSocketed' /\ CovBacked'
      BY <2>1, <3>1 DEF CovMeasures, CovSocketed, CovBacked
    <3>3. CovWindow'
      BY <2>1 DEF CovWindow
    <3>4. CovEnds'
      BY <2>1, <2>3, <3>1 DEF CovEnds, ReaderDone
    <3>5. CovBackend'
      BY <2>1, <3>1 DEF CovBackend
    <3> QED BY <1>0, <2>1, <3>2, <3>3, <3>4, <3>5, CovStands
  <2>4. CASE /\ ~ReaderDone /\ second >= collector.start + Duration
             /\ EndsAs("completed", "window_elapsed", collector.start + Duration)
    <3>1. /\ measurement' \in CovMeasurements /\ measurement'.at = "closing" /\ measurement'.status = "completed"
          /\ measurement'.reason = "window_elapsed" /\ measurement'.ended = collector.start + Duration
      BY <1>0, <2>4, CovEnded DEF CovReasons
    <3>2. CovMeasures' /\ CovSocketed' /\ CovBacked'
      BY <2>1, <3>1 DEF CovMeasures, CovSocketed, CovBacked
    <3>3. CovWindow'
      BY <2>1 DEF CovWindow
    <3>4. CovEnds'
      BY <1>0, <2>1, <2>4, <3>1 DEF CovEnds, ReaderDone
    <3>5. CovBackend'
      BY <2>1, <3>1 DEF CovBackend
    <3> QED BY <1>0, <2>1, <3>2, <3>3, <3>4, <3>5, CovStands
  <2> QED BY <1>2, <2>2, <2>3, <2>4 DEF WindowEnds
<1>3. CASE CancelMeasurement
  BY <1>0, <1>3, CovFails DEF CancelMeasurement, CovReasons
<1> QED BY <1>1, <1>2, <1>3

LEMMA CovCloses ==
  ASSUME CovInv, SocketGone \/ ReadDiagnosticsEnd \/ ReadBridgeEnd \/ SocketCloses
  PROVE  CovInv'
<1> USE CoverageAssumption DEF CovInv, CovTypes, CollectorStands
<1>0. /\ measurement \in CovMeasurements /\ measurement.ended \in Int /\ collector \in CovCollectors
      /\ socket \in CovSockets /\ lately.ignored \in Nat /\ second \in Nat /\ second \in Int
      /\ collector.start \in Int /\ socket.closed \in Int
      /\ \A c \in CoverageChannels : stats[c].last \in Int
      /\ socket.state \in {"none", "reading", "closed"}
  BY DEF CovMeasures, CovMeasurements, CovCollected, CovSocketed, CovCollectors, CovSockets, CoverageStats
<1>1. ASSUME socket' = [socket EXCEPT !.state = "closed", !.closed = second]
      PROVE  socket' \in CovSockets /\ socket'.state = "closed" /\ socket'.closed = second
  <2>1. PICK s \in CovSockets : s = socket
    BY <1>0
  <2>2. [s EXCEPT !.state = "closed"] = [state |-> "closed", sent |-> s.sent, closed |-> s.closed]
    BY ONLY <2>1 DEF CovSockets
  <2>3. [[state |-> "closed", sent |-> s.sent, closed |-> s.closed] EXCEPT !.closed = second]
          = [state |-> "closed", sent |-> s.sent, closed |-> second]
    BY ONLY TRUE
  <2>4. socket' = [state |-> "closed", sent |-> s.sent, closed |-> second]
    BY ONLY <1>1, <2>1, <2>2, <2>3
  <2> QED BY <1>0, <2>1, <2>4 DEF CovSockets
<1>2. CASE SocketGone
  <2>1. UNCHANGED <<second, reads, backend, lately, collector, seen, tally, stats>> /\ measurement.at = "closing"
    BY <1>2 DEF SocketGone
  <2>2. /\ measurement' \in CovMeasurements /\ measurement'.at \in {"end diagnostics", "done"}
        /\ measurement'.status = measurement.status
        /\ measurement'.reason = measurement.reason /\ measurement'.ended = measurement.ended
    BY <1>0, <1>2, CovReaches DEF SocketGone, CovPlaces
  <2>3. /\ socket' \in CovSockets
        /\ \/ socket' = socket /\ socket.state # "reading"
           \/ socket.state = "reading" /\ socket'.state = "closed" /\ socket'.closed = second
    BY <1>0, <1>1, <1>2 DEF SocketGone
  <2>4. CovMeasures' /\ CovSocketed' /\ CovBacked'
    BY <2>1, <2>2, <2>3 DEF CovMeasures, CovSocketed, CovBacked
  <2>5. CovWindow'
    BY <1>0, <2>1, <2>3 DEF CovWindow
  <2>6. CovEnds'
    <3>1. CASE socket' = socket /\ socket.state # "reading"
      BY <2>1, <2>2, <3>1 DEF CovEnds
    <3>2. CASE socket.state = "reading" /\ socket'.state = "closed" /\ socket'.closed = second
      <4>1. second <= second
        BY <1>0
      <4> QED BY <2>1, <2>2, <3>2, <4>1 DEF CovEnds
    <3> QED BY <2>3, <3>1, <3>2
  <2>7. CovBackend'
    BY <2>1, <2>2 DEF CovBackend
  <2> QED BY <1>0, <2>1, <2>4, <2>5, <2>6, <2>7, CovStands
<1>3. CASE SocketCloses
  <2>1. UNCHANGED <<second, measurement, reads, backend, lately, collector, seen, tally, stats>>
        /\ socket.state = "reading"
    BY <1>3 DEF SocketCloses
  <2>2. socket' \in CovSockets /\ socket'.state = "closed" /\ socket'.closed = second
    BY <1>1, <1>3 DEF SocketCloses
  <2>3. CovMeasures' /\ CovSocketed' /\ CovBacked'
    BY <2>1, <2>2 DEF CovMeasures, CovSocketed, CovBacked
  <2>4. CovWindow'
    BY <1>0, <2>1, <2>2 DEF CovWindow
  <2>5. CovEnds'
    <3>1. measurement.at \notin {"end diagnostics", "end bridge", "done"}
      BY ONLY CovInv, <2>1 DEF CovInv, CovEnds
    <3>2. second <= second
      BY <1>0
    <3> QED BY <2>1, <2>2, <3>1, <3>2 DEF CovEnds
  <2>6. CovBackend'
    BY <2>1 DEF CovBackend
  <2> QED BY <1>0, <2>1, <2>3, <2>4, <2>5, <2>6, CovStands
<1>4. CASE ReadDiagnosticsEnd
  <2>1. UNCHANGED <<second, socket, backend, lately, collector, seen, tally, stats>> /\ measurement.at = "end diagnostics"
    BY <1>4 DEF ReadDiagnosticsEnd
  <2>2. /\ measurement' \in CovMeasurements /\ measurement'.at = "end bridge"
        /\ measurement'.status = measurement.status
        /\ measurement'.reason = measurement.reason /\ measurement'.ended = measurement.ended
    BY <1>0, <1>4, CovReaches DEF ReadDiagnosticsEnd, CovPlaces
  <2>3. PICK r \in {ProviderRead, Unread} : reads' = [reads EXCEPT !.end = r]
    BY <1>4 DEF ReadDiagnosticsEnd
  <2>4. r \in CovReads /\ (r.ok = TRUE => r.id = backend.provider)
    <3>1. ProviderRead \in CovReads /\ ProviderRead.id = backend.provider
      BY DEF ProviderRead, CovReads, CovBacked
    <3>2. Unread \in CovReads /\ Unread.ok = FALSE
      BY DEF Unread, CovReads
    <3> QED BY <2>3, <3>1, <3>2
  <2>5. reads' = [start |-> reads.start, end |-> r, bridgeStart |-> reads.bridgeStart, bridgeEnd |-> reads.bridgeEnd]
    BY <2>3 DEF CovBacked
  <2>6. CovMeasures' /\ CovSocketed' /\ CovBacked'
    BY <2>1, <2>2, <2>4, <2>5 DEF CovMeasures, CovSocketed, CovBacked
  <2>7. CovWindow'
    BY <2>1 DEF CovWindow
  <2>8. CovEnds'
    BY <2>1, <2>2 DEF CovEnds
  <2>9. CovBackend'
    BY ONLY CovInv, <2>1, <2>2, <2>4, <2>5 DEF CovInv, CovBackend
  <2> QED BY <1>0, <2>1, <2>6, <2>7, <2>8, <2>9, CovStands
<1>5. CASE ReadBridgeEnd
  <2>1. UNCHANGED <<second, socket, backend, lately, collector, seen, tally, stats>> /\ measurement.at = "end bridge"
    BY <1>5 DEF ReadBridgeEnd
  <2>2. /\ measurement' \in CovMeasurements /\ measurement'.at = "done"
        /\ measurement'.status = measurement.status
        /\ measurement'.reason = measurement.reason /\ measurement'.ended = measurement.ended
    BY <1>0, <1>5, CovReaches DEF ReadBridgeEnd, CovPlaces
  <2>3. PICK r \in {BridgeRead, Unread} : reads' = [reads EXCEPT !.bridgeEnd = r]
    BY <1>5 DEF ReadBridgeEnd
  <2>4. r \in CovReads /\ (r.ok = TRUE => r.id = backend.bridge /\ r.count = backend.excluded)
    <3>1. BridgeRead \in CovReads /\ BridgeRead.id = backend.bridge /\ BridgeRead.count = backend.excluded
      BY DEF BridgeRead, CovReads, CovBacked
    <3>2. Unread \in CovReads /\ Unread.ok = FALSE
      BY DEF Unread, CovReads
    <3> QED BY <2>3, <3>1, <3>2
  <2>5. reads' = [start |-> reads.start, end |-> reads.end, bridgeStart |-> reads.bridgeStart, bridgeEnd |-> r]
    BY <2>3 DEF CovBacked
  <2>6. CovMeasures' /\ CovSocketed' /\ CovBacked'
    BY <2>1, <2>2, <2>4, <2>5 DEF CovMeasures, CovSocketed, CovBacked
  <2>7. CovWindow'
    BY <2>1 DEF CovWindow
  <2>8. CovEnds'
    BY <2>1, <2>2 DEF CovEnds
  <2>9. CovBackend'
    BY ONLY CovInv, <2>1, <2>2, <2>4, <2>5 DEF CovInv, CovBackend
  <2> QED BY <1>0, <2>1, <2>6, <2>7, <2>8, <2>9, CovStands
<1> QED BY <1>2, <1>3, <1>4, <1>5

(* The backend, and the clock                                              *)
LEMMA CovElsewhere ==
  ASSUME CovInv, BackendChanges \/ SecondPasses
  PROVE  CovInv'
<1> USE DEF CovInv, CovTypes, CollectorStands
<1>0. /\ measurement \in CovMeasurements /\ collector \in CovCollectors
      /\ socket \in CovSockets /\ second \in Nat /\ measurement.ended \in Int
      /\ collector.start \in Int /\ socket.closed \in Int
      /\ \A c \in CoverageChannels : stats[c].last \in Int
      /\ backend.provider \in Nat /\ backend.bridge \in Nat /\ backend.excluded \in Nat /\ backend.changes \in Nat
      /\ lately.excluded \in Nat /\ lately.provided \in SUBSET Nat /\ lately.ignored \in Nat
  <2>1. \A c \in CoverageChannels : stats[c].last \in Int
    BY DEF CovCollected, CoverageStats
  <2> QED BY <2>1 DEF CovMeasures, CovMeasurements, CovCollected, CovSocketed, CovCollectors, CovSockets, CovBacked
<1>1. CASE SecondPasses
  <2>1. UNCHANGED <<measurement, reads, socket, backend, lately, collector, seen, tally, stats>> /\ second' = second + 1
    BY <1>1 DEF SecondPasses
  <2>2. CovMeasures' /\ CovSocketed' /\ CovBacked'
    BY <1>0, <2>1 DEF CovMeasures, CovSocketed, CovBacked
  <2>3. CovWindow'
    BY <1>0, <2>1 DEF CovWindow
  <2>4. CovEnds'
    <3>1. \A n \in Int : n <= second => n <= second'
      BY <1>0, <2>1
    <3> QED BY <1>0, <2>1, <3>1 DEF CovEnds
  <2>5. CovBackend'
    BY <2>1 DEF CovBackend
  <2> QED BY <1>0, <2>1, <2>2, <2>3, <2>4, <2>5, CovStands
<1>2. CASE BackendChanges
  <2>1. /\ UNCHANGED <<second, measurement, reads, socket, collector, seen, tally, stats>>
        /\ reads.start.ok /\ measurement.at # "done"
        /\ AnotherProvider \/ NoBridgeNow \/ TickExcluded
    BY <1>2 DEF BackendChanges
  <2>2. ASSUME backend' \in [provider : Nat, bridge : Nat, excluded : Nat, changes : Nat],
               lately' \in [excluded : Nat, provided : SUBSET Nat, ignored : Nat],
               lately'.ignored = lately.ignored, CovBackend'
        PROVE  CovInv'
    <3>1. CovMeasures' /\ CovSocketed' /\ CovBacked'
      BY <2>1, <2>2 DEF CovMeasures, CovSocketed, CovBacked
    <3>2. CovWindow'
      BY <2>1 DEF CovWindow
    <3>3. CovEnds'
      BY <2>1 DEF CovEnds
    <3> QED BY <1>0, <2>1, <2>2, <3>1, <3>2, <3>3, CovStands
  <2>3. reads.bridgeEnd.ok # TRUE /\ reads' = reads /\ measurement' = measurement
    BY <2>1 DEF CovBackend
  <2>4. CASE AnotherProvider
    <3>1. backend' = [provider |-> backend.provider + 1, bridge |-> backend.provider + 1,
                      excluded |-> 0, changes |-> backend.changes + 1]
      BY <2>4 DEF AnotherProvider
    <3>2. lately' = [excluded |-> lately.excluded, provided |-> lately.provided \cup {backend.provider + 1},
                     ignored |-> lately.ignored]
      BY <2>4 DEF AnotherProvider, CovBacked
    <3>3. IsFiniteSet(lately'.provided)
      BY <3>2, FS_AddElement DEF CovBackend
    <3>4. /\ backend' \in [provider : Nat, bridge : Nat, excluded : Nat, changes : Nat]
          /\ lately' \in [excluded : Nat, provided : SUBSET Nat, ignored : Nat]
      BY <1>0, <3>1, <3>2
    <3>5. reads.bridgeStart.ok = TRUE => reads.bridgeStart.id \in Nat /\ reads.bridgeStart.id <= backend.provider
      BY DEF CovBackend, CovBacked, CovReads
    <3>6. CovBackend'
      <4>1. /\ backend'.provider = backend.provider + 1 /\ backend'.bridge = backend.provider + 1
            /\ lately'.provided = lately.provided \cup {backend.provider + 1}
        BY <3>1, <3>2
      <4>2. reads.bridgeStart.ok = TRUE =>
              reads.bridgeStart.id <= backend.provider + 1 /\ reads.bridgeStart.id # backend.provider + 1
        BY <1>0, <3>5
      <4>3. backend.provider + 1 <= backend.provider + 1
        BY <1>0
      <4> QED BY <2>3, <3>3, <4>1, <4>2, <4>3 DEF CovBackend
    <3> QED BY <2>2, <3>2, <3>4, <3>6
  <2>5. CASE NoBridgeNow
    <3>1. lately' = lately
      BY <2>5 DEF NoBridgeNow
    <3>2. backend' = [provider |-> backend.provider, bridge |-> 0, excluded |-> 0, changes |-> backend.changes + 1]
      <4>1. PICK b \in [provider : Nat, bridge : Nat, excluded : Nat, changes : Nat] : b = backend
        BY DEF CovBacked
      <4>2. [b EXCEPT !.bridge = 0] = [provider |-> b.provider, bridge |-> 0, excluded |-> b.excluded, changes |-> b.changes]
        BY ONLY <4>1
      <4>3. [[provider |-> b.provider, bridge |-> 0, excluded |-> b.excluded, changes |-> b.changes] EXCEPT !.excluded = 0]
              = [provider |-> b.provider, bridge |-> 0, excluded |-> 0, changes |-> b.changes]
        BY ONLY TRUE
      <4>4. [[provider |-> b.provider, bridge |-> 0, excluded |-> 0, changes |-> b.changes] EXCEPT !.changes = @ + 1]
              = [provider |-> b.provider, bridge |-> 0, excluded |-> 0, changes |-> b.changes + 1]
        BY ONLY TRUE
      <4>5. backend' = [b EXCEPT !.bridge = 0, !.excluded = 0, !.changes = @ + 1]
        BY ONLY <2>5, <4>1 DEF NoBridgeNow
      <4> QED BY ONLY <4>1, <4>2, <4>3, <4>4, <4>5
    <3>3. backend' \in [provider : Nat, bridge : Nat, excluded : Nat, changes : Nat]
      BY <1>0, <3>2
    <3>4. CovBackend'
      <4>1. backend'.provider = backend.provider /\ backend'.bridge = 0 /\ 0 <= backend.provider
        BY <1>0, <3>2
      <4> QED BY <2>3, <3>1, <4>1 DEF CovBackend
    <3> QED BY <2>2, <3>1, <3>3, <3>4 DEF CovBacked
  <2>6. CASE TickExcluded
    <3>1. lately' = [excluded |-> lately.excluded + 1, provided |-> lately.provided, ignored |-> lately.ignored]
      BY <2>6 DEF TickExcluded, CovBacked
    <3>2. backend' = [provider |-> backend.provider, bridge |-> backend.bridge,
                      excluded |-> backend.excluded + 1, changes |-> backend.changes + 1]
      <4>1. PICK b \in [provider : Nat, bridge : Nat, excluded : Nat, changes : Nat] : b = backend
        BY DEF CovBacked
      <4>2. [b EXCEPT !.excluded = @ + 1]
              = [provider |-> b.provider, bridge |-> b.bridge, excluded |-> b.excluded + 1, changes |-> b.changes]
        BY ONLY <4>1
      <4>3. [[provider |-> b.provider, bridge |-> b.bridge, excluded |-> b.excluded + 1, changes |-> b.changes]
               EXCEPT !.changes = @ + 1]
              = [provider |-> b.provider, bridge |-> b.bridge, excluded |-> b.excluded + 1, changes |-> b.changes + 1]
        BY ONLY TRUE
      <4>4. backend' = [b EXCEPT !.excluded = @ + 1, !.changes = @ + 1]
        BY ONLY <2>6, <4>1 DEF TickExcluded
      <4> QED BY ONLY <4>1, <4>2, <4>3, <4>4
    <3>3. /\ backend' \in [provider : Nat, bridge : Nat, excluded : Nat, changes : Nat]
          /\ lately' \in [excluded : Nat, provided : SUBSET Nat, ignored : Nat]
      BY <1>0, <3>1, <3>2
    <3>4. CovBackend'
      <4>1. reads.bridgeStart.ok = TRUE => reads.bridgeStart.count \in Nat
        BY DEF CovBacked, CovReads
      <4>2. reads.bridgeStart.ok = TRUE =>
              (backend.excluded = reads.bridgeStart.count + lately.excluded =>
                 backend.excluded + 1 = reads.bridgeStart.count + (lately.excluded + 1))
        BY <1>0, <4>1
      <4>3. /\ backend'.provider = backend.provider /\ backend'.bridge = backend.bridge
            /\ backend'.excluded = backend.excluded + 1
            /\ lately'.provided = lately.provided /\ lately'.excluded = lately.excluded + 1
        BY <3>1, <3>2
      <4> QED BY <2>3, <4>2, <4>3 DEF CovBackend
    <3> QED BY <2>2, <3>1, <3>3, <3>4
  <2> QED BY <2>1, <2>4, <2>5, <2>6
<1> QED BY <1>1, <1>2

(* The collector                                                           *)
LEMMA CovReceives ==
  ASSUME CovInv, seen' = seen + 1, UNCHANGED <<second, measurement, reads, socket, backend>>,
         socket.state = "reading",
         collector' \in CovCollectors, tally' \in [Fates -> Nat], stats' \in [CoverageChannels -> CoverageStats],
         lately' \in [excluded : Nat, provided : SUBSET Nat, ignored : Nat],
         lately'.excluded = lately.excluded, lately'.provided = lately.provided,
         EveryMessageCounted', CovWindow',
         collector.phase = "idle" => collector'.phase = "idle",
         collector.phase = "measuring" => collector'.phase = "measuring" /\ collector'.start = collector.start
  PROVE  CovInv'
<1>1. CovTypes'
  BY DEF CovInv, CovTypes, CovMeasures, CovSocketed, CovCollected, CovBacked
<1>2. CovEnds'
  BY DEF CovInv, CovEnds
<1>3. CovBackend'
  BY DEF CovInv, CovBackend
<1> QED BY <1>1, <1>2, <1>3 DEF CovInv

LEMMA CovSamples ==
  ASSUME NEW c \in CovCollectors, NEW wanted \in BOOLEAN
  PROVE  LET d == WithSample(c, wanted)
         IN /\ d \in CovCollectors /\ d.phase = c.phase /\ d.pending = c.pending /\ d.start = c.start
            /\ d.samples + d.dropped = c.samples + c.dropped + (IF wanted THEN 1 ELSE 0)
<1> USE CoverageAssumption
<1>1. CASE wanted = FALSE
  BY <1>1 DEF WithSample, CovCollectors
<1>2. CASE wanted = TRUE /\ c.samples < MaxSamples
  <2>1. WithSample(c, wanted) = [phase |-> c.phase, pending |-> c.pending, start |-> c.start,
                                 rejected |-> c.rejected, samples |-> c.samples + 1, dropped |-> c.dropped]
    BY <1>2 DEF WithSample, Sampled, CovCollectors
  <2>2. c.samples + 1 \in 0 .. MaxSamples /\ c.samples \in Nat /\ c.dropped \in Nat
    BY <1>2 DEF CovCollectors
  <2> QED BY <1>2, <2>1, <2>2 DEF CovCollectors
<1>3. CASE wanted = TRUE /\ ~(c.samples < MaxSamples)
  <2>1. WithSample(c, wanted) = [phase |-> c.phase, pending |-> c.pending, start |-> c.start,
                                 rejected |-> c.rejected, samples |-> c.samples, dropped |-> c.dropped + 1]
    BY <1>3 DEF WithSample, Sampled, CovCollectors
  <2>2. c.dropped + 1 \in Nat /\ c.samples \in Nat /\ c.dropped \in Nat
    BY DEF CovCollectors
  <2> QED BY <1>3, <2>1, <2>2 DEF CovCollectors
<1> QED BY <1>1, <1>2, <1>3

LEMMA TalliesFates ==
  ASSUME tally \in [Fates -> Nat], NEW fate \in Fates, tally' = [tally EXCEPT ![fate] = @ + 1]
  PROVE  /\ tally' \in [Fates -> Nat] /\ SumOver(tally) \in Int /\ SumOver(tally') = SumOver(tally) + 1
         /\ tally'["anomaly"] = tally["anomaly"] + (IF fate = "anomaly" THEN 1 ELSE 0)
<1>1. IsFiniteSet(Fates)
  <2>1. IsFiniteSet({"aside"}) /\ Fates = {"aside"} \cup {"anomaly"}
    BY FS_Singleton DEF Fates
  <2> QED BY <2>1, FS_AddElement
<1>2. PICK f : f = tally
  OBVIOUS
<1>3. f \in [Fates -> Int] /\ f[fate] \in Int /\ f[fate] + 1 \in Int
  BY <1>2
<1>4. SumOver(f) \in Int /\ SumOver([f EXCEPT ![fate] = f[fate] + 1]) = SumOver(f) - f[fate] + (f[fate] + 1)
  BY ONLY <1>1, <1>3, fate \in Fates, SumOverChanges
<1>5. tally' = [f EXCEPT ![fate] = f[fate] + 1]
  BY <1>2
<1>6. SumOver(tally') = SumOver(tally) + 1 /\ SumOver(tally) \in Int
  <2>1. SumOver(tally') = SumOver([f EXCEPT ![fate] = f[fate] + 1])
    BY <1>5
  <2>2. PICK x : x = SumOver(f)
    OBVIOUS
  <2>3. PICK y : y = SumOver(tally')
    OBVIOUS
  <2>4. x \in Int /\ y = x - f[fate] + (f[fate] + 1)
    BY <1>4, <2>1, <2>2, <2>3
  <2>5. y = x + 1
    BY ONLY <1>3, <2>4
  <2> QED BY <1>2, <1>4, <2>2, <2>3, <2>5
<1>7. tally' \in [Fates -> Nat] /\ tally'["anomaly"] = tally["anomaly"] + (IF fate = "anomaly" THEN 1 ELSE 0)
  BY DEF Fates
<1> QED BY <1>6, <1>7

LEMMA CovCounts ==
  ASSUME CovInv, seen' = seen + 1, UNCHANGED <<second, measurement, reads, socket, backend, stats, lately>>,
         socket.state = "reading", NEW fate \in Fates, tally' = [tally EXCEPT ![fate] = @ + 1],
         NEW c \in CovCollectors, collector' = WithSample(c, fate = "anomaly"),
         c.phase = collector.phase, c.pending = collector.pending, c.start = collector.start,
         c.samples = collector.samples, c.dropped = collector.dropped
  PROVE  CovInv'
<1> USE DEF CovInv, CovTypes, CovCollected
<1>1. PICK d : d = collector'
  OBVIOUS
<1>2. (fate = "anomaly") \in BOOLEAN
  OBVIOUS
<1>3. /\ d \in CovCollectors /\ d.phase = c.phase /\ d.pending = c.pending /\ d.start = c.start
      /\ d.samples + d.dropped = c.samples + c.dropped + (IF fate = "anomaly" THEN 1 ELSE 0)
  BY <1>1, <1>2, CovSamples
<1>4. /\ tally' \in [Fates -> Nat] /\ SumOver(tally) \in Int /\ SumOver(tally') = SumOver(tally) + 1
      /\ tally'["anomaly"] = tally["anomaly"] + (IF fate = "anomaly" THEN 1 ELSE 0)
  BY TalliesFates
<1>5. EveryMessageCounted'
  <2>1. /\ Kept("count") \in Int /\ Kept("back") \in Int /\ Kept("again") \in Int
        /\ Cardinality(CoverageChannels \ collector.pending) \in Nat /\ lately.ignored \in Nat
        /\ tally["anomaly"] \in Nat /\ seen \in Nat
    <3>1. Kept("count") \in Int /\ Kept("back") \in Int /\ Kept("again") \in Int
      <4>1. PICK ch \in CoverageChannels : TRUE
        BY CoverageAssumption
      <4>2. stats[ch] \in CoverageStats
        OBVIOUS
      <4> QED BY <4>1, <4>2, KeptChanges DEF Kept, KeptIn
    <3>2. IsFiniteSet(CoverageChannels \ collector.pending)
      BY CoverageAssumption, FS_Subset
    <3> QED BY <3>1, <3>2, FS_CardinalityType DEF Fates
  <2>2. Kept("count")' = Kept("count") /\ Kept("back")' = Kept("back") /\ Kept("again")' = Kept("again")
    BY DEF Kept
  <2>3. /\ seen = SumOver(tally) + Kept("count") + lately.ignored + Cardinality(CoverageChannels \ collector.pending)
        /\ collector.samples + collector.dropped = tally["anomaly"] + Kept("back") + Kept("again")
    BY DEF EveryMessageCounted
  <2>4. seen' = SumOver(tally') + Kept("count") + lately.ignored + Cardinality(CoverageChannels \ collector.pending)
    BY ONLY <1>4, <2>1, <2>3, seen' = seen + 1
  <2>5. d.samples + d.dropped = tally'["anomaly"] + Kept("back") + Kept("again")
    <3>1. PICK s : s = collector.samples + collector.dropped
      OBVIOUS
    <3>2. d.samples + d.dropped = s + (IF fate = "anomaly" THEN 1 ELSE 0) /\ s = tally["anomaly"] + Kept("back") + Kept("again")
      BY <1>3, <2>3, <3>1
    <3> QED BY ONLY <1>4, <2>1, <3>2
  <2> QED BY <1>1, <1>3, <2>2, <2>4, <2>5 DEF EveryMessageCounted
<1>6. CovWindow'
  BY <1>1, <1>3 DEF CovWindow
<1> QED BY <1>1, <1>3, <1>4, <1>5, <1>6, CovReceives DEF CovBacked

LEMMA KeptAreNumbers ==
  ASSUME CovInv
  PROVE  /\ Kept("count") \in Int /\ Kept("back") \in Int /\ Kept("again") \in Int
         /\ SumOver(tally) \in Int /\ tally["anomaly"] \in Nat /\ seen \in Nat /\ lately.ignored \in Nat
         /\ IsFiniteSet(CoverageChannels \ collector.pending)
         /\ Cardinality(CoverageChannels \ collector.pending) \in Nat
<1> USE DEF CovInv, CovTypes, CovCollected
<1>1. Kept("count") \in Int /\ Kept("back") \in Int /\ Kept("again") \in Int
  <2>1. PICK ch \in CoverageChannels : TRUE
    BY CoverageAssumption
  <2>2. stats[ch] \in CoverageStats
    OBVIOUS
  <2> QED BY <2>1, <2>2, KeptChanges DEF Kept, KeptIn
<1>2. IsFiniteSet(CoverageChannels \ collector.pending)
  BY CoverageAssumption, FS_Subset
<1>3. SumOver(tally) \in Int
  <2>1. IsFiniteSet(Fates)
    <3>1. IsFiniteSet({"aside"}) /\ Fates = {"aside"} \cup {"anomaly"}
      BY FS_Singleton DEF Fates
    <3> QED BY <3>1, FS_AddElement
  <2>2. PICK f : f = tally
    OBVIOUS
  <2>3. f \in [Fates -> Int] /\ f["aside"] \in Int /\ "aside" \in Fates
    BY <2>2 DEF Fates
  <2>4. SumOver(f) \in Int
    BY ONLY <2>1, <2>3, SumOverChanges
  <2> QED BY <2>2, <2>4
<1> QED BY <1>1, <1>2, <1>3, FS_CardinalityType DEF Fates

LEMMA CovCounted ==
  ASSUME CovInv, seen' = seen + 1, UNCHANGED <<second, measurement, reads, socket, backend>>,
         socket.state = "reading", NEW fate \in Fates, Counted(fate)
  PROVE  CovInv'
<1>1. /\ tally' = [tally EXCEPT ![fate] = @ + 1] /\ collector' = WithSample(collector, fate = "anomaly")
      /\ UNCHANGED <<stats, lately>> /\ collector \in CovCollectors
  BY DEF Counted, CovInv, CovTypes, CovCollected
<1> QED BY <1>1, CovCounts

LEMMA CovNoise ==
  ASSUME CovInv, ReceiveNoise
  PROVE  CovInv'
<1>1. seen' = seen + 1 /\ UNCHANGED <<second, measurement, reads, socket, backend>> /\ socket.state = "reading"
  BY DEF ReceiveNoise, Received
<1>2. CASE Counted("aside") \/ Counted("anomaly")
  BY <1>1, <1>2, CovCounted DEF Fates
<1>3. CASE Rejected
  <2>1. PICK c : c = [collector EXCEPT !.rejected = @ \/ collector.phase = "setup"]
    OBVIOUS
  <2>2. collector \in CovCollectors
    BY DEF CovInv, CovTypes, CovCollected
  <2>3. c = [phase |-> collector.phase, pending |-> collector.pending, start |-> collector.start,
             rejected |-> (collector.rejected \/ collector.phase = "setup"), samples |-> collector.samples,
             dropped |-> collector.dropped]
    BY <2>1, <2>2 DEF CovCollectors
  <2>4. /\ c \in CovCollectors /\ c.phase = collector.phase /\ c.pending = collector.pending
        /\ c.start = collector.start /\ c.samples = collector.samples /\ c.dropped = collector.dropped
    <3>1. (collector.rejected \/ collector.phase = "setup") \in BOOLEAN
      OBVIOUS
    <3> QED BY <2>2, <2>3, <3>1 DEF CovCollectors
  <2>5. /\ tally' = [tally EXCEPT !["anomaly"] = @ + 1] /\ collector' = WithSample(c, TRUE)
        /\ UNCHANGED <<stats, lately>>
    BY <1>3, <2>1 DEF Rejected
  <2>6. collector' = WithSample(c, "anomaly" = "anomaly") /\ "anomaly" \in Fates
    BY <2>5 DEF Fates
  <2> QED BY <1>1, <2>4, <2>5, <2>6, CovCounts
<1> QED BY <1>2, <1>3 DEF ReceiveNoise, Received

LEMMA CovAck ==
  ASSUME CovInv, ReceiveAck
  PROVE  CovInv'
<1>1. PICK c \in socket.sent : Received(Acknowledged(c))
  BY DEF ReceiveAck
<1>2. seen' = seen + 1 /\ UNCHANGED <<second, measurement, reads, socket, backend>> /\ socket.state = "reading"
  BY <1>1 DEF Received
<1>3. c \in CoverageChannels
  BY <1>1 DEF CovInv, CovTypes, CovSocketed, CovSockets
<1>4. /\ collector \in CovCollectors /\ tally \in [Fates -> Nat] /\ second \in Nat
      /\ stats \in [CoverageChannels -> CoverageStats]
      /\ lately \in [excluded : Nat, provided : SUBSET Nat, ignored : Nat]
  BY DEF CovInv, CovTypes, CovCollected, CovBacked, CovMeasures
<1>5. /\ seen = SumOver(tally) + Kept("count") + lately.ignored + Cardinality(CoverageChannels \ collector.pending)
      /\ collector.samples + collector.dropped = tally["anomaly"] + Kept("back") + Kept("again")
  BY DEF CovInv, EveryMessageCounted
<1>6. CASE WindowOver
  BY <1>1, <1>2, <1>6, CovCounted DEF Received, Fates
<1>7. CASE Acknowledged(c) /\ ~NewAck(c)
  <2>1. UNCHANGED <<collector, tally, stats>>
    BY <1>7 DEF Acknowledged
  <2>2. lately' = [excluded |-> lately.excluded, provided |-> lately.provided, ignored |-> lately.ignored + 1]
    BY <1>4, <1>7 DEF Acknowledged
  <2>3. EveryMessageCounted'
    <3>1. seen + 1 = SumOver(tally) + Kept("count") + (lately.ignored + 1) + Cardinality(CoverageChannels \ collector.pending)
      BY ONLY <1>5, CovInv, KeptAreNumbers
    <3>2. Kept("count")' = Kept("count") /\ Kept("back")' = Kept("back") /\ Kept("again")' = Kept("again")
      BY <2>1 DEF Kept
    <3> QED BY <1>2, <1>5, <2>1, <2>2, <3>1, <3>2 DEF EveryMessageCounted
  <2>4. CovWindow'
    BY <1>2, <2>1 DEF CovInv, CovWindow
  <2> QED BY <1>2, <1>4, <2>1, <2>2, <2>3, <2>4, CovReceives
<1>8. CASE Acknowledged(c) /\ NewAck(c)
  <2>1. UNCHANGED <<tally, stats, lately>> /\ collector.phase = "setup" /\ c \in collector.pending
    BY <1>8 DEF Acknowledged, NewAck
  <2> DEFINE unheard == collector.pending \ {c}
  <2>2. collector' = IF unheard = {} THEN [collector EXCEPT !.pending = unheard, !.phase = "measuring", !.start = second]
                     ELSE [collector EXCEPT !.pending = unheard]
    BY <1>8 DEF Acknowledged, AllAcknowledged
  <2>3. PICK k : k = collector
    OBVIOUS
  <2>4. k \in CovCollectors /\ unheard \in SUBSET CoverageChannels
    BY <1>4, <2>3 DEF CovCollectors
  <2> HIDE DEF unheard
  <2>5. [k EXCEPT !.pending = unheard] = [phase |-> k.phase, pending |-> unheard, start |-> k.start,
           rejected |-> k.rejected, samples |-> k.samples, dropped |-> k.dropped]
    BY ONLY <2>4 DEF CovCollectors
  <2>6. [[phase |-> k.phase, pending |-> unheard, start |-> k.start, rejected |-> k.rejected,
          samples |-> k.samples, dropped |-> k.dropped] EXCEPT !.phase = "measuring"]
          = [phase |-> "measuring", pending |-> unheard, start |-> k.start, rejected |-> k.rejected,
             samples |-> k.samples, dropped |-> k.dropped]
    BY ONLY TRUE
  <2>7. [[phase |-> "measuring", pending |-> unheard, start |-> k.start, rejected |-> k.rejected,
          samples |-> k.samples, dropped |-> k.dropped] EXCEPT !.start = second]
          = [phase |-> "measuring", pending |-> unheard, start |-> second, rejected |-> k.rejected,
             samples |-> k.samples, dropped |-> k.dropped]
    BY ONLY TRUE
  <2>8. \/ /\ unheard = {}
           /\ collector' = [phase |-> "measuring", pending |-> unheard, start |-> second, rejected |-> k.rejected,
                            samples |-> k.samples, dropped |-> k.dropped]
        \/ /\ unheard # {}
           /\ collector' = [phase |-> k.phase, pending |-> unheard, start |-> k.start,
                            rejected |-> k.rejected, samples |-> k.samples, dropped |-> k.dropped]
    BY ONLY <2>2, <2>3, <2>5, <2>6, <2>7
  <2>9. /\ collector' \in CovCollectors /\ collector'.pending = unheard
        /\ collector'.samples = k.samples /\ collector'.dropped = k.dropped
        /\ collector'.phase = "measuring" \/ collector'.phase = "setup"
        /\ collector'.phase = "measuring" => unheard = {} /\ collector'.start = second
    BY <1>4, <2>1, <2>3, <2>4, <2>8 DEF CovCollectors
  <2>10. EveryMessageCounted'
    <3>1. CoverageChannels \ unheard = (CoverageChannels \ collector.pending) \cup {c} /\ c \notin CoverageChannels \ collector.pending
      BY <1>3, <2>1 DEF unheard
    <3>2. Cardinality(CoverageChannels \ unheard) = Cardinality(CoverageChannels \ collector.pending) + 1
      BY <3>1, KeptAreNumbers, FS_AddElement
    <3>3. seen + 1 = SumOver(tally) + Kept("count") + lately.ignored + Cardinality(CoverageChannels \ unheard)
      BY ONLY <1>5, <3>2, CovInv, KeptAreNumbers
    <3>4. Kept("count")' = Kept("count") /\ Kept("back")' = Kept("back") /\ Kept("again")' = Kept("again")
      BY <2>1 DEF Kept
    <3> QED BY <1>2, <1>5, <2>1, <2>3, <2>9, <3>3, <3>4 DEF EveryMessageCounted
  <2>11. CovWindow'
    <3>1. \A ch \in CoverageChannels : stats[ch].count = 0
      BY <2>1 DEF CovInv, CovWindow
    <3>2. \A ch \in CoverageChannels : stats[ch].last = -1
      BY <3>1 DEF CovInv, CovWindow
    <3>3. 0 <= second /\ second <= second
      BY <1>4
    <3> QED BY <1>2, <2>1, <2>9, <3>1, <3>2, <3>3 DEF CovWindow
  <2> QED BY <1>2, <1>4, <2>1, <2>9, <2>10, <2>11, CovReceives
<1> QED BY <1>1, <1>6, <1>7, <1>8 DEF Received

LEMMA CovEvent ==
  ASSUME CovInv, ReceiveEvent
  PROVE  CovInv'
<1>1. PICK e \in CoverageEvents : Received(IF FateOf(e) = "event" THEN EventKept(e) ELSE Counted(FateOf(e)))
  BY DEF ReceiveEvent
<1>2. seen' = seen + 1 /\ UNCHANGED <<second, measurement, reads, socket, backend>> /\ socket.state = "reading"
  BY <1>1 DEF Received
<1>3. CASE WindowOver
  BY <1>1, <1>2, <1>3, CovCounted DEF Received, Fates
<1>4. CASE FateOf(e) # "event" /\ Counted(FateOf(e))
  <2>1. FateOf(e) \in Fates
    BY <1>4 DEF FateOf, Fates
  <2> QED BY <1>2, <1>4, <2>1, CovCounted
<1>5. CASE ~WindowOver /\ FateOf(e) = "event" /\ EventKept(e)
  <2> DEFINE ch == e.channel
             s == stats[ch]
             back == e.source < s.high
             again == e.source = s.high /\ ch # TickChannel
             b == IF back THEN 1 ELSE 0
             a == IF again THEN 1 ELSE 0
  <2>1. /\ ch \in CoverageChannels /\ e.source \in Nat /\ collector \in CovCollectors /\ second \in Nat
        /\ stats \in [CoverageChannels -> CoverageStats] /\ s \in CoverageStats /\ Duration \in Nat
        /\ lately \in [excluded : Nat, provided : SUBSET Nat, ignored : Nat]
        /\ tally \in [Fates -> Nat]
    BY CoverageAssumption DEF CovInv, CovTypes, CovCollected, CovMeasures, CovBacked, CoverageEvents
  <2>2. s.count \in Nat /\ s.last \in Int /\ s.high \in Nat /\ s.back \in Nat /\ s.again \in Nat
    BY <2>1 DEF CoverageStats
  <2>3. collector.phase = "measuring"
    BY <1>5 DEF FateOf, WindowStarted
  <2>4. collector.start \in Int /\ second <= collector.start + Duration /\ collector.start <= second
    BY <1>5, <2>1, <2>3 DEF WindowOver, WindowStarted, CovCollectors, CovInv, CovWindow
  <2>5. PICK r : r = [count |-> s.count + 1, last |-> second - collector.start, high |-> Max({s.high, e.source}),
                      back |-> s.back + b, again |-> s.again + a]
    OBVIOUS
  <2>6. stats' = [stats EXCEPT ![ch] = r] /\ UNCHANGED <<tally, lately>>
    BY <1>5, <2>5 DEF EventKept
  <2>7. collector' = WithSample(collector, back \/ again)
    BY <1>5 DEF EventKept
  <2>8. Max({s.high, e.source}) \in Nat
    <3>1. {s.high, e.source} \in SUBSET Int /\ IsFiniteSet({s.high, e.source}) /\ {s.high, e.source} # {}
      <4>1. IsFiniteSet({s.high}) /\ {s.high, e.source} = {s.high} \cup {e.source}
        BY FS_Singleton
      <4>2. IsFiniteSet({s.high, e.source})
        BY <4>1, FS_AddElement
      <4> HIDE DEF s
      <4> QED BY <2>1, <2>2, <4>2
    <3>2. Max({s.high, e.source}) \in {s.high, e.source}
      BY <3>1, MinAndMax
    <3> QED BY <2>1, <2>2, <3>2
  <2>9. b \in {0, 1} /\ a \in {0, 1} /\ (back \/ again) \in BOOLEAN /\ b + a = (IF back \/ again THEN 1 ELSE 0)
    <3> HIDE DEF s, ch
    <3>1. ~(back /\ again)
      BY <2>1, <2>2
    <3> QED BY <3>1
  <2> HIDE DEF s, a, b, back, again
  <2>10. r \in CoverageStats /\ r.count = s.count + 1 /\ r.last = second - collector.start
         /\ r.back = s.back + b /\ r.again = s.again + a
    <3>1. s.count + 1 \in Nat /\ second - collector.start \in Int /\ s.back + b \in Nat /\ s.again + a \in Nat
      BY <2>1, <2>2, <2>4, <2>9
    <3> QED BY <2>5, <2>8, <3>1 DEF CoverageStats
  <2> HIDE DEF ch
  <2>11. PICK d : d = collector'
    OBVIOUS
  <2>12. /\ d \in CovCollectors /\ d.phase = collector.phase /\ d.pending = collector.pending
         /\ d.start = collector.start
         /\ d.samples + d.dropped = collector.samples + collector.dropped + (b + a)
    BY <2>1, <2>7, <2>9, <2>11, CovSamples
  <2>13. stats' \in [CoverageChannels -> CoverageStats] /\ stats'[ch] = r
         /\ \A c \in CoverageChannels \ {ch} : stats'[c] = stats[c]
    BY <2>1, <2>6, <2>10
  <2>14. EveryMessageCounted'
    <3>1. ASSUME NEW field \in {"count", "back", "again"}
          PROVE  Kept(field) \in Int /\ Kept(field)' = Kept(field) - s[field] + r[field]
      <4>1. KeptIn(stats, field) \in Int /\ KeptIn([stats EXCEPT ![ch] = r], field) = KeptIn(stats, field) - stats[ch][field] + r[field]
        BY <2>1, <2>10, KeptChanges
      <4>2. Kept(field) = KeptIn(stats, field) /\ Kept(field)' = KeptIn(stats', field)
        BY DEF Kept, KeptIn
      <4> QED BY <2>6, <4>1, <4>2 DEF s
    <3>2. /\ Kept("count")' = Kept("count") - s.count + r.count /\ Kept("back")' = Kept("back") - s.back + r.back
          /\ Kept("again")' = Kept("again") - s.again + r.again
      BY <3>1
    <3>3. /\ Kept("count")' = Kept("count") + 1 /\ Kept("back")' = Kept("back") + b
          /\ Kept("again")' = Kept("again") + a
      BY ONLY <2>2, <2>9, <2>10, <3>2, CovInv, KeptAreNumbers
    <3>4. /\ seen = SumOver(tally) + Kept("count") + lately.ignored + Cardinality(CoverageChannels \ collector.pending)
          /\ collector.samples + collector.dropped = tally["anomaly"] + Kept("back") + Kept("again")
      BY DEF CovInv, EveryMessageCounted
    <3>5. seen + 1 = SumOver(tally) + (Kept("count") + 1) + lately.ignored + Cardinality(CoverageChannels \ collector.pending)
      BY ONLY <3>4, CovInv, KeptAreNumbers
    <3>6. d.samples + d.dropped = tally["anomaly"] + (Kept("back") + b) + (Kept("again") + a)
      <4>1. PICK x : x = collector.samples + collector.dropped
        OBVIOUS
      <4>2. x = tally["anomaly"] + Kept("back") + Kept("again") /\ d.samples + d.dropped = x + (b + a)
        BY <2>12, <3>4, <4>1
      <4> QED BY ONLY <2>9, <4>2, CovInv, KeptAreNumbers
    <3> QED BY <1>2, <2>6, <2>11, <2>12, <3>3, <3>5, <3>6 DEF EveryMessageCounted
  <2>15. CovWindow'
    <3>1. s.count + 1 > 0 /\ s.count + 1 # 0 /\ r.last <= Duration /\ r.last + collector.start <= second
      BY <2>1, <2>2, <2>4, <2>10
    <3>2. ASSUME NEW c \in CoverageChannels
          PROVE  /\ stats'[c].count = 0 => stats'[c].last = -1
                 /\ stats'[c].count > 0 => stats'[c].last <= Duration /\ stats'[c].last + collector.start <= second
      <4>1. CASE c = ch
        BY <2>10, <2>13, <3>1, <4>1
      <4>2. CASE c # ch
        BY <1>2, <2>13, <4>2 DEF CovInv, CovWindow
      <4> QED BY <4>1, <4>2
    <3>3. collector.pending = {} /\ 0 <= collector.start /\ collector.start <= second
      BY <2>3 DEF CovInv, CovWindow
    <3> QED BY <1>2, <2>3, <2>11, <2>12, <3>2, <3>3 DEF CovWindow
  <2> QED BY <1>2, <2>1, <2>3, <2>6, <2>11, <2>12, <2>13, <2>14, <2>15, CovReceives
<1> QED BY <1>1, <1>3, <1>4, <1>5 DEF Received

LEMMA CovStep == CovInv /\ [CoverageNext]_coverageVars => CovInv'
<1> SUFFICES ASSUME CovInv, [CoverageNext]_coverageVars
             PROVE  CovInv'
  OBVIOUS
<1>1. CASE UNCHANGED coverageVars
  <2>1. UNCHANGED <<second, measurement, reads, socket, collector, seen, tally, stats, backend, lately>>
    BY <1>1 DEF coverageVars
  <2>2. CovMeasures' /\ CovSocketed' /\ CovCollected' /\ CovBacked'
    BY <2>1 DEF CovInv, CovTypes, CovMeasures, CovSocketed, CovCollected, CovBacked
  <2>3. EveryMessageCounted'
    BY <2>1 DEF CovInv, EveryMessageCounted, Kept
  <2>4. CovWindow'
    BY <2>1 DEF CovInv, CovWindow
  <2>5. CovEnds'
    BY <2>1 DEF CovInv, CovEnds
  <2>6. CovBackend'
    BY <2>1 DEF CovInv, CovBackend
  <2> QED BY <2>2, <2>3, <2>4, <2>5, <2>6 DEF CovInv, CovTypes
<1>2. CASE StartMeasuring \/ ReadDiagnosticsStart \/ ReadBridgeStart
  BY <1>2, CovStarts
<1>3. CASE ConnectSocket \/ SendSubscribe
  BY <1>3, CovConnects
<1>4. CASE WaitReady \/ WindowEnds \/ CancelMeasurement
  BY <1>4, CovWaits
<1>5. CASE SocketGone \/ ReadDiagnosticsEnd \/ ReadBridgeEnd \/ SocketCloses
  BY <1>5, CovCloses
<1>6. CASE BackendChanges \/ SecondPasses
  BY <1>6, CovElsewhere
<1> QED BY <1>1, <1>2, <1>3, <1>4, <1>5, <1>6, CovNoise, CovAck, CovEvent DEF CoverageNext

LEMMA CoverageIsTrue == CovInv => CoverageTypeOK /\ EveryMessageCounted /\ WindowOnly /\ ReportHonest
<1> SUFFICES ASSUME CovInv
             PROVE  CoverageTypeOK /\ EveryMessageCounted /\ WindowOnly /\ ReportHonest
  OBVIOUS
<1> USE CoverageAssumption
<1>0. /\ measurement \in CovMeasurements /\ collector \in CovCollectors /\ socket \in CovSockets
      /\ measurement.ended \in Int /\ collector.start \in Int /\ socket.closed \in Int /\ second \in Nat
      /\ Duration \in Nat /\ stats \in [CoverageChannels -> CoverageStats]
  BY DEF CovInv, CovTypes, CovMeasures, CovMeasurements, CovCollected, CovCollectors, CovSocketed, CovSockets
<1>1. CoverageTypeOK
  BY <1>0 DEF CovInv, CovEnds, CoverageTypeOK, CovCollectors, CovSockets
<1>2. EveryMessageCounted
  BY DEF CovInv
<1>3. WindowOnly
  <2>1. ASSUME NEW c \in CoverageChannels, stats[c].count > 0
        PROVE  collector.pending = {} /\ stats[c].last <= Duration
    <3>1. stats[c].count # 0
      BY <2>1
    <3> QED BY <2>1, <3>1 DEF CovInv, CovWindow
  <2> QED BY <2>1 DEF WindowOnly
<1>4. ASSUME measurement.at = "done"
      PROVE  ReportHonest
  <2> DEFINE past == measurement.ended - collector.start
             low == Min({past, Duration})
  <2>1. /\ WindowElapsed \in Int /\ WindowElapsed >= 0 /\ WindowElapsed >= low /\ low \in {past, Duration}
        /\ WindowElapsed \in {0, low} /\ low \in Int
    <3>1. past \in Int /\ {past, Duration} \in SUBSET Int /\ {past, Duration} # {}
      BY <1>0
    <3>2. IsFiniteSet({past, Duration})
      <4>1. IsFiniteSet({past}) /\ {past, Duration} = {past} \cup {Duration}
        BY FS_Singleton
      <4> QED BY <4>1, FS_AddElement
    <3>3. low \in {past, Duration} /\ low \in Int
      BY <1>0, <3>1, <3>2, MinAndMax
    <3>4. IsFiniteSet({0, low}) /\ {0, low} \in SUBSET Int /\ {0, low} # {}
      <4>1. IsFiniteSet({0}) /\ {0, low} = {0} \cup {low}
        BY FS_Singleton
      <4> QED BY <3>3, <4>1, FS_AddElement
    <3>5. WindowElapsed = Max({0, low})
      BY DEF WindowElapsed
    <3> HIDE DEF low
    <3>6. Max({0, low}) \in {0, low} /\ \A n \in {0, low} : Max({0, low}) >= n
      BY <3>4, MinAndMax
    <3> QED BY <3>3, <3>5, <3>6
  <2>2. /\ Report.status = measurement.status /\ Report.reason = measurement.reason
        /\ Report.elapsed = WindowElapsed /\ Report.excluded = BridgeDelta /\ Report.replaced = IdentityChanged
        /\ Report.events = (IF collector.phase # "measuring" THEN <<>> ELSE [c \in CoverageChannels |-> stats[c].count])
        /\ Report.without = (IF collector.phase # "measuring" THEN {} ELSE {c \in CoverageChannels : stats[c].count = 0})
    BY DEF Report
  <2> HIDE DEF low
  <2>3. measurement.status = "completed" <=> measurement.reason = "window_elapsed"
    BY DEF CovInv, CovEnds
  <2>4. ASSUME measurement.status = "completed"
        PROVE  /\ collector.start + Duration <= socket.closed /\ WindowElapsed = Duration
               /\ collector.phase = "measuring"
    <3>1. socket.state = "closed"
      BY <1>0, <1>4, <2>4 DEF CovInv, CovEnds, CovSockets
    <3>2. /\ collector.phase = "measuring" /\ measurement.ended = collector.start + Duration
          /\ measurement.ended <= socket.closed
      BY <2>4, <3>1 DEF CovInv, CovEnds
    <3>3. past = Duration
      BY <1>0, <3>2
    <3> HIDE DEF past
    <3> QED BY <1>0, <2>1, <3>2, <3>3
  <2>5. collector.phase = "measuring" => Report.events # <<>>
    <3>1. ASSUME collector.phase = "measuring"
          PROVE  Report.events # <<>>
      <4>1. DOMAIN Report.events = CoverageChannels
        BY <2>2, <3>1
      <4>2. TickChannel \in DOMAIN Report.events /\ TickChannel \notin DOMAIN <<>>
        BY <4>1
      <4> QED BY <4>2
    <3> QED BY <3>1
  <2>6. ASSUME measurement.reason \in {"window_elapsed", "connection_lost"}, NEW c \in CoverageChannels
        PROVE  stats[c].last <= WindowElapsed
    <3>0. stats[c].count \in Nat /\ stats[c].last \in Int
      BY <1>0 DEF CoverageStats
    <3>1. CASE stats[c].count = 0
      <4>1. stats[c].last = -1
        BY <3>1 DEF CovInv, CovWindow
      <4> QED BY <2>1, <4>1
    <3>2. CASE stats[c].count > 0
      <4>1. /\ stats[c].last <= Duration
            /\ stats[c].last + collector.start <= (IF socket.state = "closed" THEN socket.closed ELSE second)
        BY <3>2 DEF CovInv, CovWindow
      <4>2. stats[c].last <= past
        <5>1. CASE measurement.reason = "window_elapsed"
          <6>1. measurement.ended = collector.start + Duration
            BY <2>3, <5>1 DEF CovInv, CovEnds
          <6> QED BY <1>0, <3>0, <4>1, <6>1
        <5>2. CASE measurement.reason = "connection_lost"
          <6>1. socket.state = "closed" /\ measurement.ended = socket.closed
            BY <5>2 DEF CovInv, CovEnds
          <6>2. stats[c].last + collector.start <= socket.closed
            BY <4>1, <6>1
          <6> QED BY <1>0, <3>0, <6>1, <6>2
        <5> QED BY <2>6, <5>1, <5>2
      <4>3. past \in Int
        BY <1>0
      <4> HIDE DEF past
      <4> QED BY <1>0, <2>1, <3>0, <4>1, <4>2, <4>3
    <3> QED BY <3>0, <3>1, <3>2
  <2>7. Report.events # <<>> => collector.pending = {}
    BY <2>2 DEF CovInv, CovWindow
  <2>8. \A c \in Report.without : stats[c].last = NoStats.last
    <3>1. NoStats.last = -1
      BY DEF NoStats
    <3>2. \A c \in Report.without : c \in CoverageChannels /\ stats[c].count = 0
      BY <2>2
    <3> QED BY <3>1, <3>2 DEF CovInv, CovWindow
  <2>9. Report.excluded # NoDelta => Report.excluded = lately.excluded
    <3>1. ASSUME BridgeDelta # NoDelta
          PROVE  BridgeDelta = lately.excluded
      <4>1. /\ reads.bridgeStart.ok /\ reads.bridgeEnd.ok /\ reads.bridgeStart.id # 0
            /\ reads.bridgeStart.id = reads.bridgeEnd.id
            /\ BridgeDelta = reads.bridgeEnd.count - reads.bridgeStart.count
        BY <3>1 DEF BridgeDelta, SameBridge
      <4>2. /\ reads \in [start : CovReads, end : CovReads, bridgeStart : CovReads, bridgeEnd : CovReads]
            /\ lately.excluded \in Nat
        BY DEF CovInv, CovTypes, CovBacked
      <4>3. reads.bridgeStart.ok = TRUE /\ reads.bridgeEnd.ok = TRUE /\ reads.bridgeStart.count \in Nat
        BY <4>1, <4>2 DEF CovReads
      <4>4. reads.bridgeEnd.id = backend.bridge /\ reads.bridgeEnd.count = backend.excluded
        BY <4>3 DEF CovInv, CovBackend
      <4>5. backend.excluded = reads.bridgeStart.count + lately.excluded
        BY <4>1, <4>3, <4>4 DEF CovInv, CovBackend
      <4> QED BY <4>1, <4>2, <4>3, <4>4, <4>5
    <3> QED BY <2>2, <3>1
  <2>10. Report.replaced => Cardinality(lately.provided) > 1
    <3>1. ASSUME IdentityChanged
          PROVE  Cardinality(lately.provided) > 1
      <4>1. reads.start.ok /\ reads.end.ok /\ reads.start.id # reads.end.id
        BY <3>1 DEF IdentityChanged
      <4>2. reads.start.ok = TRUE /\ reads.end.ok = TRUE
        BY <4>1 DEF CovInv, CovTypes, CovBacked, CovReads
      <4>3. /\ reads.start.id \in lately.provided /\ reads.end.id \in lately.provided
            /\ IsFiniteSet(lately.provided)
        BY <4>2 DEF CovInv, CovBackend
      <4> DEFINE two == {reads.start.id, reads.end.id}
      <4>4. ASSUME NEW x, NEW y, x # y
            PROVE  Cardinality({x, y}) = 2
        <5>1. IsFiniteSet({x}) /\ Cardinality({x}) = 1 /\ y \notin {x}
          BY <4>4, FS_Singleton
        <5>2. Cardinality({x} \cup {y}) = 2
          <6>1. Cardinality({x} \cup {y}) = Cardinality({x}) + 1
            BY ONLY <5>1, FS_AddElement
          <6> QED BY ONLY <5>1, <6>1
        <5>3. {x, y} = {x} \cup {y}
          OBVIOUS
        <5> QED BY <5>2, <5>3
      <4>6. Cardinality(two) = 2
        BY <4>1, <4>4
      <4>7. Cardinality(two) <= Cardinality(lately.provided) /\ Cardinality(lately.provided) \in Nat
        BY <4>3, FS_Subset, FS_CardinalityType
      <4> HIDE DEF two
      <4> QED BY <4>6, <4>7
    <3> QED BY <2>2, <3>1
  <2> HIDE DEF past
  <2> QED BY <2>2, <2>3, <2>4, <2>5, <2>6, <2>7, <2>8, <2>9, <2>10 DEF ReportHonest
<1>5. measurement.at # "done" => ReportHonest
  BY DEF ReportHonest
<1> QED BY <1>1, <1>2, <1>3, <1>4, <1>5

---------------------------------------------------------------------------
(* The components together: a behaviour is one of one component, which     *)
(* keeps its own invariant; nothing is asked of the others.                *)

ProvedParts == {"bridge", "bars", "pipeline", "composite", "guards", "run", "coverage"}

PartsInv ==
  /\ component = "bridge" => TickInv
  /\ component = "bars" => RelayInv
  /\ component = "pipeline" => PipelineInv
  /\ component = "composite" => CompositeInv
  /\ component = "guards" => GuardInv
  /\ component = "run" => RunInv
  /\ component = "coverage" => CovInv

LEMMA PartsStart == MarketInit => PartsInv
<1> SUFFICES ASSUME MarketInit PROVE PartsInv
  OBVIOUS
<1>1. TickInit /\ RelayInit /\ PipelineInit /\ CompositeInit /\ ReplayInit /\ RunInit /\ CoverageInit
  BY ONLY MarketInit DEF MarketInit
<1> QED
  BY ONLY <1>1, TickStart, RelayStart, PipelineStart, CompositeStart, GuardStart, RunStart, CovStart
     DEF PartsInv

(* A step is one of the component the behaviour is of.                     *)
LEMMA PartsMove ==
  ASSUME [MarketNext]_marketVars
  PROVE  /\ component' = component
         /\ component = "bridge" => [TickNext]_tickVars
         /\ component = "bars" => [RelayNext]_relayVars
         /\ component = "pipeline" => [PipelineNext]_pipelineVars
         /\ component = "composite" => [CompositeNext]_compositeVars
         /\ component = "guards" => [ReplayNext]_replayVars
         /\ component = "run" => [RunNext]_runVars
         /\ component = "coverage" => [CoverageNext]_coverageVars
<1>1. CASE UNCHANGED marketVars
  BY ONLY <1>1 DEF marketVars
<1>2. CASE MarketNext
  BY ONLY <1>2 DEF MarketNext, Only
<1> QED BY ONLY [MarketNext]_marketVars, <1>1, <1>2

LEMMA PartsStep == PartsInv /\ [MarketNext]_marketVars => PartsInv'
<1> SUFFICES ASSUME PartsInv, [MarketNext]_marketVars PROVE PartsInv'
  OBVIOUS
<1>1. component = "bridge" => TickInv'
  BY ONLY PartsInv, [MarketNext]_marketVars, PartsMove, BridgeStep DEF PartsInv
<1>2. component = "bars" => RelayInv'
  BY ONLY PartsInv, [MarketNext]_marketVars, PartsMove, RelayStep DEF PartsInv
<1>3. component = "pipeline" => PipelineInv'
  BY ONLY PartsInv, [MarketNext]_marketVars, PartsMove, PipelineStep DEF PartsInv
<1>4. component = "composite" => CompositeInv'
  BY ONLY PartsInv, [MarketNext]_marketVars, PartsMove, CompositeStep DEF PartsInv
<1>5. component = "guards" => GuardInv'
  BY ONLY PartsInv, [MarketNext]_marketVars, PartsMove, GuardStep DEF PartsInv
<1>6. component = "run" => RunInv'
  BY ONLY PartsInv, [MarketNext]_marketVars, PartsMove, RunStep DEF PartsInv
<1>7. component = "coverage" => CovInv'
  BY ONLY PartsInv, [MarketNext]_marketVars, PartsMove, CovStep DEF PartsInv
<1>8. component' = component
  BY ONLY [MarketNext]_marketVars, PartsMove
<1> QED BY ONLY <1>1, <1>2, <1>3, <1>4, <1>5, <1>6, <1>7, <1>8 DEF PartsInv

LEMMA PartsSound == PartsInv => (component \in ProvedParts => DataTrue)
<1> SUFFICES ASSUME PartsInv, component \in ProvedParts PROVE DataTrue
  OBVIOUS
<1>1. component = "bridge" => TickTypeOK /\ CandlesInOrder /\ TicksAccounted /\ OneSource
  BY ONLY PartsInv, TicksAreTrue DEF PartsInv
<1>2. component = "bars" => RelayTypeOK /\ SnapshotsFresh
  BY ONLY PartsInv DEF PartsInv, RelayInv
<1>3. component = "pipeline" =>
        PipelineTypeOK /\ ReplaySettled /\ RaisesForFaults /\ AccelerationFromPrevious
  BY ONLY PartsInv, PipelineIsTrue DEF PartsInv
<1>4. component = "composite" => CompositeTypeOK /\ CompositesForward /\ CompositeSettles
  BY ONLY PartsInv, CompositesAreTrue DEF PartsInv
<1>5. component = "guards" => ReplayTypeOK /\ OneReplay /\ ReplayLeavesNoTrace /\ ResultsHonest
  BY ONLY PartsInv, GuardsAreTrue DEF PartsInv
<1>6. component = "run" => RunTypeOK /\ SignalsSettled /\ TradesFollow /\ ExitsCautious
  BY ONLY PartsInv, RunsAreTrue DEF PartsInv
<1>7. component = "coverage" =>
        CoverageTypeOK /\ EveryMessageCounted /\ WindowOnly /\ ReportHonest
  BY ONLY PartsInv, CoverageIsTrue DEF PartsInv
<1> QED
  BY ONLY component \in ProvedParts, <1>1, <1>2, <1>3, <1>4, <1>5, <1>6, <1>7 DEF DataTrue, ProvedParts

(* Seven of the parts of DataTrue: no tick is lost, repeated or attributed *)
(* to two sources on its way through the bridges, a published bar is of    *)
(* the ticks since its symbol was watched, a backtest's pipeline settles   *)
(* before the next candle, the composite follows its tickers, replays are  *)
(* one at a time and leave no trace, each signal becomes one cautious      *)
(* outcome or is discarded, and a measurement counts every message of its  *)
(* window.                                                                 *)
THEOREM PartsAreTrue == MarketSpec => [](component \in ProvedParts => DataTrue)
<1> QED BY PartsStart, PartsStep, PartsSound, PTL DEF MarketSpec

=============================================================================
