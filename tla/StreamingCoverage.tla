---------------------------- MODULE StreamingCoverage ----------------------------
(***************************************************************************)
(* The measurement of measurement/streaming_coverage.py: one task sets up, *)
(* waits for the window to end and reports, another reads the socket into  *)
(* the collector, also while the first opens or closes it; meanwhile the   *)
(* backend replaces its provider and its bridge.  Messages are of one      *)
(* monitored symbol; seconds are counted, URLs and texts left out.         *)
(***************************************************************************)
EXTENDS Integers, FiniteSets, FiniteSetsExt, Functions

CONSTANTS
  CoverageChannels, TickChannel,   \* the latter has no timeframe
  Duration, MaxSamples,
  LastSecond, LastSource, MaxHappenings   \* bounds: messages and changes of the backend

ASSUME CoverageAssumption ==
  /\ TickChannel \in CoverageChannels /\ IsFiniteSet(CoverageChannels)
  /\ {Duration, MaxSamples, LastSecond, LastSource, MaxHappenings} \subseteq Nat

VARIABLES
  second,       \* the clock
  measurement,  \* Measurement: [at, status, reason, ended]; ended is -1 for none
  reads,        \* diagnostics_start, diagnostics_end, bridge_start, bridge_end
  socket,      \* [state, sent, closed]: the reader, what was asked for, when it ended
      \* the stop event
  collector,    \* phase, pending acks, window start, rejection, samples
  seen,         \* messages_seen
  tally,        \* the counters of what is not an event of the window
  stats,        \* what is kept of each category
  backend,      \* the backend: provider, bridge, its exclusions
  lately        \* (history) since the first reads; messages without a counter

coverageVars == <<second, measurement, reads, socket, collector, seen, tally, stats,
                  backend, lately>>

Unread == [ok |-> FALSE, id |-> 0, count |-> 0]
(* Malformed messages, unexpected channels and errors are anomalies; what  *)
(* is before or after the window, wide or not monitored is put aside.      *)
Fates == {"anomaly", "aside"}
NoStats == [count |-> 0, last |-> -1, high |-> 0, back |-> 0, again |-> 0]

CoverageInit ==
  /\ second = 0
  /\ measurement = [at |-> "new", status |-> "not_started", reason |-> "none", ended |-> -1]
  /\ reads = [start |-> Unread, end |-> Unread, bridgeStart |-> Unread, bridgeEnd |-> Unread]
  /\ socket = [state |-> "none", sent |-> {}, closed |-> -1]
  /\ collector = [phase |-> "idle", pending |-> CoverageChannels, start |-> -1, rejected |-> FALSE,
                  samples |-> 0, dropped |-> 0]
  /\ seen = 0 /\ tally = [f \in Fates |-> 0] /\ stats = [c \in CoverageChannels |-> NoStats]
  /\ backend = [provider |-> 1, bridge |-> 1, excluded |-> 0, changes |-> 0]
  /\ lately = [excluded |-> 0, provided |-> {1}, ignored |-> 0]

(***************************************************************************)
(* CoverageCollector                                                       *)
(***************************************************************************)
WindowStarted == collector.phase = "measuring"
(* mutant: the window does not end *)
WindowOver_Never == FALSE

WindowOver == WindowStarted /\ second > collector.start + Duration

Sampled(c) == IF c.samples < MaxSamples THEN [c EXCEPT !.samples = @ + 1] ELSE [c EXCEPT !.dropped = @ + 1]
(* mutant: past the limit a sample is forgotten *)
WithSample_Lost(c, wanted) == IF wanted /\ c.samples < MaxSamples THEN Sampled(c) ELSE c

WithSample(c, wanted) == IF wanted THEN Sampled(c) ELSE c

Counted(fate) ==
  /\ tally' = [tally EXCEPT ![fate] = @ + 1]
  /\ collector' = WithSample(collector, fate = "anomaly")
  /\ UNCHANGED <<stats, lately>>

Rejected ==
  /\ tally' = [tally EXCEPT !["anomaly"] = @ + 1]
  /\ collector' = WithSample([collector EXCEPT !.rejected = @ \/ collector.phase = "setup"], TRUE)
  /\ UNCHANGED <<stats, lately>>

(* mutant: any acknowledgement counts *)
NewAck_Any(c) == collector.phase = "setup"

NewAck(c) == collector.phase = "setup" /\ c \in collector.pending

(* mutant: one channel is enough *)
AllAcknowledged_One(pending) == TRUE

AllAcknowledged(pending) == pending = {}

Acknowledged(c) ==
  /\ LET pending == collector.pending \ {c}
     IN collector' = IF ~NewAck(c) THEN collector
                     ELSE IF AllAcknowledged(pending)
                     THEN [collector EXCEPT !.pending = pending, !.phase = "measuring", !.start = second]
                     ELSE [collector EXCEPT !.pending = pending]
  /\ lately' = IF NewAck(c) THEN lately ELSE [lately EXCEPT !.ignored = @ + 1]
  /\ UNCHANGED <<tally, stats>>

CoverageEvents ==
  [channel : CoverageChannels, flaw : {"none", "symbol", "timeframe"}, wide : BOOLEAN,
   monitored : BOOLEAN, source : 0 .. LastSource]

(* The first check of _on_event that fails; a source of 0 is unreadable.   *)
FateOf(e) ==
  IF ~WindowStarted THEN "aside"
  ELSE IF e.flaw = "symbol" \/ (e.channel # TickChannel /\ e.flaw = "timeframe") THEN "anomaly"
  ELSE IF (e.channel # TickChannel /\ e.wide) \/ ~e.monitored THEN "aside"
  ELSE IF e.source = 0 THEN "anomaly" ELSE "event"

(* An event of the window, against the newest source time before it; equal *)
(* ones are told for candles and features only.                            *)
EventKept(e) ==
  LET s == stats[e.channel]
      back == e.source < s.high
      again == e.source = s.high /\ e.channel # TickChannel
      offset == second - collector.start
  IN /\ stats' = [stats EXCEPT ![e.channel] =
          [count |-> s.count + 1, last |-> offset,
           high |-> Max({s.high, e.source}),
           back |-> s.back + (IF back THEN 1 ELSE 0), again |-> s.again + (IF again THEN 1 ELSE 0)]]
     /\ collector' = WithSample(collector, back \/ again)
     /\ UNCHANGED <<tally, lately>>

Happens == seen + backend.changes < MaxHappenings

(* process                                                                 *)
Received(handle) ==
  /\ socket.state = "reading" /\ Happens /\ seen' = seen + 1
  /\ IF WindowOver THEN Counted("aside") ELSE handle
  /\ UNCHANGED <<second, measurement, reads, socket, backend>>

ReceiveNoise == Received(Counted("anomaly")) \/ Received(Rejected)
ReceiveAck == \E c \in socket.sent : Received(Acknowledged(c))
ReceiveEvent ==
  \E e \in CoverageEvents : Received(IF FateOf(e) = "event" THEN EventKept(e) ELSE Counted(FateOf(e)))

(* The end of _read_loop.                                                  *)
SocketCloses ==
  /\ socket.state = "reading"
  /\ socket' = [socket EXCEPT !.state = "closed", !.closed = second]
  /\ UNCHANGED <<second, measurement, reads,  collector, seen, tally, stats, backend, lately>>

(***************************************************************************)
(* Measurement                                                             *)
(***************************************************************************)
CollectorStands == UNCHANGED <<collector, seen, tally, stats>>
Reaches(at) == measurement' = [measurement EXCEPT !.at = at]
EndsAs(status, reason, at) ==
  measurement' = [at |-> "closing", status |-> status, reason |-> reason, ended |-> at]
FailsSetup(reason) == EndsAs("failed_setup", reason, measurement.ended)

StartMeasuring ==
  /\ measurement.at = "new"
  /\ \/ measurement' = [measurement EXCEPT !.at = "diagnostics", !.status = "running"]
     \/ FailsSetup("universe_read_failed")
  /\ UNCHANGED <<second, reads, socket, backend, lately>> /\ CollectorStands

ProviderRead == [ok |-> TRUE, id |-> backend.provider, count |-> 0]
BridgeRead == [ok |-> TRUE, id |-> backend.bridge, count |-> backend.excluded]

ReadDiagnosticsStart ==
  /\ measurement.at = "diagnostics"
  /\ \/ /\ reads' = [reads EXCEPT !.start = ProviderRead] /\ Reaches("bridge")
        /\ lately' = [lately EXCEPT !.provided = {backend.provider}]
     \/ FailsSetup("start_diagnostics_unavailable") /\ UNCHANGED <<reads, lately>>
  /\ UNCHANGED <<second, socket, backend>> /\ CollectorStands

(* It cannot fail the measurement.                                         *)
ReadBridgeStart ==
  /\ measurement.at = "bridge" /\ Reaches("connecting")
  /\ \E r \in {BridgeRead, Unread} : reads' = [reads EXCEPT !.bridgeStart = r]
  /\ lately' = [lately EXCEPT !.excluded = 0]
  /\ UNCHANGED <<second, socket, backend>> /\ CollectorStands

ConnectSocket ==
  /\ measurement.at = "connecting"
  /\ \/ /\ Reaches("subscribing") /\ collector' = [collector EXCEPT !.phase = "setup"]
        /\ socket' = [socket EXCEPT !.state = "reading"]
     \/ FailsSetup("websocket_connect_failed") /\ UNCHANGED <<collector, socket>>
  /\ UNCHANGED <<second, reads,  seen, tally, stats, backend, lately>>

SendSubscribe ==
  /\ measurement.at = "subscribing"
  /\ \/ \E c \in CoverageChannels \ socket.sent :
          /\ socket' = [socket EXCEPT !.sent = @ \cup {c}]
          /\ IF socket'.sent = CoverageChannels THEN Reaches("waiting") ELSE UNCHANGED measurement
     \/ FailsSetup("subscribe_send_failed") /\ UNCHANGED socket
  /\ UNCHANGED <<second, reads,  backend, lately>> /\ CollectorStands

Ready == WindowStarted \/ collector.rejected \/ socket.state = "closed"

(* wait_for: ready, or the timeout.                                        *)
WaitReady ==
  /\ measurement.at = "waiting"
  /\ CASE ~Ready -> FailsSetup("acknowledgement_timeout")
       [] Ready /\ collector.rejected -> FailsSetup("subscription_rejected")
       [] Ready /\ ~collector.rejected /\ ~WindowStarted -> FailsSetup("connection_closed_during_setup")
       [] OTHER -> Reaches("measuring")
  /\ UNCHANGED <<second, reads, socket, backend, lately>> /\ CollectorStands

(* mutant: a window that has passed is complete *)
ReaderDone_BeforeEnd == socket.state = "closed" /\ second < collector.start + Duration

ReaderDone == socket.state = "closed"

(* asyncio.wait: the stop event, the reader or the timer, which may be     *)
(* late.                                                                   *)
WindowEnds ==
  /\ measurement.at = "measuring"
  /\ \/ EndsAs("interrupted", "stop_requested", second)
     \/ ReaderDone /\ EndsAs("interrupted", "connection_lost", socket.closed)
     \/ /\ ~ReaderDone /\ second >= collector.start + Duration
        /\ EndsAs("completed", "window_elapsed", collector.start + Duration)
  /\ UNCHANGED <<second, reads, socket, backend, lately>> /\ CollectorStands

(* CancelledError, but for one in the middle of a close.                   *)
CancelMeasurement ==
  /\ measurement.at \notin {"new", "closing", "done"} /\ EndsAs("interrupted", "cancelled", second)
  /\ UNCHANGED <<second, reads, socket, backend, lately>> /\ CollectorStands

(* ws.close(), at most 5 seconds; then the reader is cancelled.            *)
SocketGone ==
  /\ measurement.at = "closing"
  /\ socket' = IF socket.state = "reading" THEN [socket EXCEPT !.state = "closed", !.closed = second] ELSE socket
  /\ Reaches(IF measurement.status = "completed" \/ measurement.reason \in {"stop_requested", "connection_lost"}
             THEN "end diagnostics" ELSE "done")
  /\ UNCHANGED <<second, reads,  backend, lately>> /\ CollectorStands

ReadDiagnosticsEnd ==
  /\ measurement.at = "end diagnostics" /\ Reaches("end bridge")
  /\ \E r \in {ProviderRead, Unread} : reads' = [reads EXCEPT !.end = r]
  /\ UNCHANGED <<second, socket, backend, lately>> /\ CollectorStands

ReadBridgeEnd ==
  /\ measurement.at = "end bridge" /\ Reaches("done")
  /\ \E r \in {BridgeRead, Unread} : reads' = [reads EXCEPT !.bridgeEnd = r]
  /\ UNCHANGED <<second, socket, backend, lately>> /\ CollectorStands

(***************************************************************************)
(* The report                                                              *)
(***************************************************************************)
(* mutant: counters of two bridges are compared *)
SameBridge_Any(a, b) == TRUE

SameBridge(a, b) == a.id = b.id

NoDelta == -1
(* compute_bridge_delta                                                    *)
BridgeDelta ==
  LET a == reads.bridgeStart
      b == reads.bridgeEnd
  IN IF a.ok /\ b.ok /\ a.id # 0 /\ b.id # 0 /\ SameBridge(a, b) /\ a.count <= b.count
     THEN b.count - a.count ELSE NoDelta

(* compare_identity                                                        *)
IdentityChanged == reads.start.ok /\ reads.end.ok /\ reads.start.id # reads.end.id

WindowElapsed == Max({0, Min({measurement.ended - collector.start, Duration})})

(* build_report: without a window there is nothing to tell of events.      *)
Report ==
  [status |-> measurement.status, reason |-> measurement.reason, elapsed |-> WindowElapsed,
   excluded |-> BridgeDelta, replaced |-> IdentityChanged,
   events |-> IF collector.phase # "measuring" THEN <<>> ELSE [c \in CoverageChannels |-> stats[c].count],
   without |-> IF collector.phase # "measuring" THEN {} ELSE {c \in CoverageChannels : stats[c].count = 0}]

(***************************************************************************)
(* The backend                                                             *)
(***************************************************************************)
AnotherProvider ==
  /\ backend' = [provider |-> backend.provider + 1, bridge |-> backend.provider + 1,
                 excluded |-> 0, changes |-> backend.changes + 1]
  /\ lately' = [lately EXCEPT !.provided = @ \cup {backend.provider + 1}]

NoBridgeNow ==
  backend' = [backend EXCEPT !.bridge = 0, !.excluded = 0, !.changes = @ + 1] /\ UNCHANGED lately

TickExcluded ==
  /\ backend.bridge # 0
  /\ backend' = [backend EXCEPT !.excluded = @ + 1, !.changes = @ + 1]
  /\ lately' = [lately EXCEPT !.excluded = @ + 1]

(* Between the reads of the start and of the end.                          *)
BackendChanges ==
  /\ reads.start.ok /\ measurement.at # "done" /\ measurement.reason # "cancelled"
  /\ measurement.status # "failed_setup" /\ Happens
  /\ (AnotherProvider \/ NoBridgeNow \/ TickExcluded)
  /\ UNCHANGED <<second, measurement, reads, socket>> /\ CollectorStands

SecondPasses ==
  /\ second < LastSecond /\ second' = second + 1
  /\ socket.state = "reading" \/ measurement.at = "measuring"
  /\ UNCHANGED <<measurement, reads, socket, backend, lately>> /\ CollectorStands

CoverageNext ==
  \/ StartMeasuring \/ ReadDiagnosticsStart \/ ReadBridgeStart \/ ConnectSocket \/ SendSubscribe
  \/ WaitReady \/ WindowEnds \/ CancelMeasurement \/ SocketGone \/ ReadDiagnosticsEnd \/ ReadBridgeEnd
  \/ ReceiveNoise \/ ReceiveAck \/ ReceiveEvent \/ SocketCloses
  \/ BackendChanges \/ SecondPasses

CoverageSpec == CoverageInit /\ [][CoverageNext]_coverageVars

CoverageTypeOK ==
  /\ collector.phase \in {"idle", "setup", "measuring"} /\ collector.pending \subseteq CoverageChannels
  /\ socket.state \in {"none", "reading", "closed"} /\ collector.samples \in 0 .. MaxSamples
  /\ measurement.at = "done" => socket.state # "reading"

SumOver(f) == FoldFunction(LAMBDA a, b : a + b, 0, f)
Kept(field) == SumOver([c \in CoverageChannels |-> stats[c][field]])

(* Every message is counted once, and every anomaly has its sample or is   *)
(* told as dropped.                                                        *)
EveryMessageCounted ==
  /\ seen = SumOver(tally) + Kept("count") + lately.ignored + Cardinality(CoverageChannels \ collector.pending)
  /\ collector.samples + collector.dropped =
       tally["anomaly"] + Kept("back") + Kept("again")

(* Only what comes between the last acknowledgement and the deadline is an *)
(* event of the window, whatever else goes on while it comes.              *)
WindowOnly ==
  \A c \in CoverageChannels :
    stats[c].count > 0 => collector.pending = {} /\ stats[c].last <= Duration

(* A report says completed only if the socket was read until the deadline; *)
(* no event is later than the end it tells, unless the end was asked for.  *)
(* It tells of events only once every channel was acknowledged, and of a   *)
(* channel without any only if none came in the window.  Exclusions told   *)
(* are those between the two reads, whatever was replaced or lost in       *)
(* between.                                                                *)
ReportHonest ==
  measurement.at = "done" =>
    /\ Report.status = "completed" =>
         /\ collector.start + Duration <= socket.closed /\ Report.elapsed = Duration
         /\ Report.events # <<>>
    /\ Report.reason \in {"window_elapsed", "connection_lost"} =>
         \A c \in CoverageChannels : stats[c].last <= Report.elapsed
    /\ Report.events # <<>> => collector.pending = {}
    /\ \A c \in Report.without : stats[c].last = NoStats.last
    /\ Report.excluded # NoDelta => Report.excluded = lately.excluded
    /\ Report.replaced => Cardinality(lately.provided) > 1
=============================================================================
