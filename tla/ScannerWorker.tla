----------------------------- MODULE ScannerWorker -----------------------------
(***************************************************************************)
(* The scheduled scanner: one timer, at most one cycle, and a snapshot     *)
(* that is kept for readers.  A cycle reads the universe in a thread and   *)
(* only then, on the loop, asks whether it may still scan: a stop, a       *)
(* replay that installed its own engines or the end of the session may     *)
(* have come between.  Scores and symbols are abstracted away.             *)
(***************************************************************************)
EXTENDS Naturals

CONSTANTS
  ScanInterval,    \* SCAN_INTERVAL_SECONDS, in ticks of the clock
  LastScanTick,    \* bound: ticks of the clock
  MaxScanStarts    \* bound: starts of the worker

ASSUME ScanAssumption ==
  ScanInterval \in Nat \ {0} /\ LastScanTick \in Nat \ {0} /\ MaxScanStarts \in Nat

VARIABLES
  scanTask,        \* the worker's task: where it is, its next due time, its generation
  scanGeneration,  \* _generation: advanced by each start and each stop
  stopping,        \* stop() holds the lifecycle lock, and the stop event is set
  observed,            \* ObservationSnapshot
  replaySlot,      \* replay_slot_busy(): the engines may be a replay's
  admits,          \* what the session clock answers to the admission
  scanClock,       \* the clock of the worker and of its stamps
  attempt          \* (history) how the latest attempt has gone

scanVars ==
  <<scanTask, scanGeneration, stopping, observed, replaySlot, admits, scanClock, attempt>>

NoScanTask == [at |-> "none", due |-> 0, mine |-> 0]

ScanInit ==
  /\ scanTask = NoScanTask
  /\ scanGeneration = 0
  /\ stopping = FALSE
  /\ observed = [attempt |-> 0, success |-> 0, error |-> FALSE, running |-> FALSE, cycle |-> FALSE,
             engines |-> "none"]
  /\ replaySlot = FALSE
  /\ admits = "yes"
  /\ scanClock = 1
  /\ attempt = "none"

(* _scanner_observation_eligible: a replay is asked about before the       *)
(* session clock, which may raise.                                         *)
Admission == IF replaySlot THEN "no" ELSE admits

(***************************************************************************)
(* The worker                                                              *)
(***************************************************************************)
(* Stamps are finer than this clock: what comes next is stamped later than *)
(* what is stamped already.                                                *)
StampsLater == observed.attempt < scanClock /\ observed.success < scanClock

StartWorker ==
  /\ ~stopping /\ scanTask.at = "none" /\ scanGeneration < 2 * MaxScanStarts
  /\ StampsLater
  /\ scanGeneration' = scanGeneration + 1
  /\ observed' = [observed EXCEPT !.running = TRUE, !.cycle = FALSE]
  /\ scanTask' = [at |-> "loop", due |-> scanClock, mine |-> scanGeneration + 1]
  /\ UNCHANGED <<stopping, replaySlot, admits, scanClock, attempt>>

(* The stop event is set and what is in flight is disowned; the task is    *)
(* then waited for, never cancelled.                                       *)
StopBegins ==
  /\ ~stopping /\ scanTask.at # "none"
  /\ stopping' = TRUE
  /\ scanGeneration' = scanGeneration + 1
  /\ observed' = [observed EXCEPT !.running = FALSE]
  /\ UNCHANGED <<scanTask, replaySlot, admits, scanClock, attempt>>

StopEnds ==
  /\ stopping /\ scanTask.at = "loop"
  /\ stopping' = FALSE
  /\ scanTask' = NoScanTask
  /\ observed' = [observed EXCEPT !.running = FALSE, !.cycle = FALSE]
  /\ UNCHANGED <<scanGeneration, replaySlot, admits, scanClock, attempt>>

(* mutant: an overlong cycle is followed by those it missed *)
NextDue_CatchesUp(due) == due + ScanInterval

(* The first instant of the grid after the present: intervals that passed  *)
(* during a long cycle are skipped, not caught up with.                    *)
NextDue(due) == due + ((scanClock - due) \div ScanInterval + 1) * ScanInterval

(* _run, at its due time: an admission that raises is a failed attempt, a  *)
(* refusal is not an attempt, and an admitted cycle starts to read.        *)
CycleDue ==
  /\ scanTask.at = "loop" /\ ~stopping /\ scanTask.due <= scanClock /\ StampsLater
  /\ LET due == NextDue(scanTask.due)
     IN \/ /\ Admission = "no"
           /\ scanTask' = [scanTask EXCEPT !.due = due]
           /\ UNCHANGED <<observed, attempt>>
        \/ /\ Admission = "raises"
           /\ scanTask' = [scanTask EXCEPT !.due = due]
           /\ observed' = [observed EXCEPT !.attempt = scanClock, !.error = TRUE]
           /\ attempt' = "failed"
        \/ /\ Admission = "yes"
           /\ scanTask' = [scanTask EXCEPT !.at = "reading", !.due = due]
           /\ observed' = [observed EXCEPT !.attempt = scanClock, !.error = FALSE, !.cycle = TRUE]
           /\ attempt' = "in_progress"
  /\ UNCHANGED <<scanGeneration, stopping, replaySlot, admits, scanClock>>

(* mutant: the failure of a read is published even after a stop *)
OwnsSnapshot_Always == TRUE

(* A cycle that has been disowned leaves the snapshot alone.               *)
OwnsSnapshot == ~stopping /\ scanTask.mine = scanGeneration

(* mutant: the admission is not asked again after the read *)
StillAdmitted_AsBefore == OwnsSnapshot

(* What _cycle asks after the read, before the scan.                       *)
StillAdmitted == OwnsSnapshot /\ Admission = "yes"

(* run_scan asks the engines that are installed now.                       *)
Engines == IF replaySlot THEN "replay" ELSE "live"

(* The read returns, and the rest of the cycle is one step of the loop.    *)
ScanPublished ==
  /\ StillAdmitted
  /\ observed' = [observed EXCEPT !.success = scanClock, !.cycle = FALSE, !.engines = Engines]
  /\ attempt' = "succeeded"

ScanRefused ==
  /\ ~StillAdmitted /\ (~OwnsSnapshot \/ Admission = "no")
  /\ observed' = IF OwnsSnapshot THEN [observed EXCEPT !.cycle = FALSE] ELSE observed
  /\ attempt' = "interrupted"

(* The read, the second admission or the scan raises.                      *)
ScanFails ==
  /\ observed' = IF OwnsSnapshot THEN [observed EXCEPT !.error = TRUE, !.cycle = FALSE] ELSE observed
  /\ attempt' = IF OwnsSnapshot THEN "failed" ELSE "interrupted"

CycleEnds ==
  /\ scanTask.at = "reading"
  /\ ScanPublished \/ ScanRefused \/ ScanFails
  /\ scanTask' = [scanTask EXCEPT !.at = "loop"]
  /\ UNCHANGED <<scanGeneration, stopping, replaySlot, admits, scanClock>>

(***************************************************************************)
(* The world: replays, the session clock, time                             *)
(***************************************************************************)
SlotTurns ==
  /\ replaySlot' = ~replaySlot
  /\ UNCHANGED <<scanTask, scanGeneration, stopping, observed, admits, scanClock, attempt>>

SessionTurns ==
  /\ admits' \in {"yes", "no", "raises"} \ {admits}
  /\ UNCHANGED <<scanTask, scanGeneration, stopping, observed, replaySlot, scanClock,
                 attempt>>

TimePasses ==
  /\ scanClock < LastScanTick
  /\ scanClock' = scanClock + 1
  /\ UNCHANGED <<scanTask, scanGeneration, stopping, observed, replaySlot, admits, attempt>>

ScanNext ==
  \/ StartWorker \/ StopBegins \/ StopEnds
  \/ CycleDue \/ CycleEnds
  \/ SlotTurns \/ SessionTurns \/ TimePasses

ScanSpec == ScanInit /\ [][ScanNext]_scanVars

(***************************************************************************)
(* What readers are told                                                   *)
(***************************************************************************)
(* routes/scanner.py: _latest_attempt_state                                *)
LatestAttempt ==
  CASE observed.error -> "failed"
    [] ~observed.error /\ observed.cycle -> "in_progress"
    [] ~observed.error /\ ~observed.cycle /\ observed.attempt = 0 -> "none"
    [] ~observed.error /\ ~observed.cycle /\ observed.attempt # 0 ->
         IF observed.success >= observed.attempt THEN "succeeded" ELSE "interrupted"

(* GET /scanner/observation: one read of the snapshot, whatever the worker *)
(* does.                                                                   *)
Observation ==
  [latest |-> LatestAttempt, running |-> observed.running, cycle |-> observed.cycle,
   retained |-> IF observed.success = 0 THEN "none" ELSE "results"]

ScanTypeOK ==
  /\ scanTask \in [at : {"none", "loop", "reading"}, due : Nat, mine : Nat]
  /\ scanGeneration \in 0 .. 2 * MaxScanStarts
  /\ stopping \in BOOLEAN /\ replaySlot \in BOOLEAN
  /\ admits \in {"yes", "no", "raises"}
  /\ scanClock \in 1 .. LastScanTick
  /\ observed \in [attempt : 0 .. LastScanTick, success : 0 .. LastScanTick, error : BOOLEAN,
               running : BOOLEAN, cycle : BOOLEAN, engines : {"none", "live", "replay"}]

(* What is shown was made of live engines: never of those a replay has     *)
(* installed, however long the universe took to be read.                   *)
ResultsLive == observed.engines # "replay"

(* What a reader is told of the latest attempt is how it went, whatever    *)
(* stops, restarts, refusals and failures came between, "running" and      *)
(* "cycle_running" are true of the task, and results are told of once      *)
(* there were any.                                                         *)
AttemptTold ==
  /\ ~stopping =>
       /\ Observation.latest = attempt
       /\ Observation.running <=> scanTask.at # "none"
       /\ Observation.cycle <=> scanTask.at = "reading"
  /\ attempt = "succeeded" => Observation.retained = "results"
  /\ Observation.retained = "none" <=> observed.engines = "none"

(* Cycles are not bunched, and no interval is skipped that a cycle left    *)
(* free: while one reads, the next is due at the first instant of the grid *)
(* after its beginning.                                                    *)
CyclesSpaced ==
  scanTask.at = "reading" =>
    /\ observed.attempt < scanTask.due
    /\ scanTask.due <= observed.attempt + ScanInterval

(* A worker that has been told to stop publishes nothing more: not the     *)
(* scan, and not the failure of a read it was waiting for.                 *)
NothingAfterStop ==
  [][stopping => /\ observed'.success = observed.success
                 /\ observed'.error = observed.error
                 /\ observed'.engines = observed.engines]_scanVars

---------------------------------------------------------------------------
(* A request for the live feeds of every saved symbol.  The universe is    *)
(* read in a thread; the symbols are then asked for one by one of the      *)
(* provider that streams at that moment, while no replay may start.        *)
CONSTANTS
  FeedTickers,     \* tickers that may be saved
  MaxProviders     \* bound: streaming providers in turn

ASSUME FeedRequestAssumption == MaxProviders \in Nat

VARIABLES
  batch,           \* the request: where it is, what it read and has to ask, of which provider
  streamer,        \* the streaming provider: 0 for none, else its number
  streaming,       \* it is connected
  streamed         \* the symbols it has been asked for

batchVars == <<batch, streamer, streaming, streamed>>

IdleBatch == [at |-> "idle", read |-> {}, todo |-> {}, of |-> 0, sym |-> "none", failed |-> FALSE,
              interrupted |-> FALSE, status |-> "none"]

BatchInit ==
  /\ batch = IdleBatch
  /\ streamer = 0 /\ streaming = FALSE /\ streamed = {}

AskFeeds ==
  /\ batch.at = "idle"
  /\ batch' = [batch EXCEPT !.at = "reading"]
  /\ UNCHANGED <<streamer, streaming, streamed>>

(* The read fails, or a replay holds the slot when it returns.             *)
FeedsRead ==
  /\ batch.at = "reading"
  /\ \/ \E read \in SUBSET FeedTickers : batch' = [batch EXCEPT !.at = "read", !.read = read]
     \/ batch' = [batch EXCEPT !.at = "answered", !.status = "refused"]
  /\ UNCHANGED <<streamer, streaming, streamed>>

(* Refused without a connected provider, else the batch is that provider's.*)
FeedsBegin ==
  /\ batch.at = "read"
  /\ batch' = IF streamer = 0 \/ ~streaming
              THEN [batch EXCEPT !.at = "answered", !.status = "refused"]
              ELSE [batch EXCEPT !.at = "asking", !.todo = batch.read, !.of = streamer]
  /\ UNCHANGED <<streamer, streaming, streamed>>

(* mutant: only a provider that is not connected interrupts *)
ProviderStands_AnyOne == streaming

(* The batch goes on while its provider is the current one and connected.  *)
ProviderStands == streamer = batch.of /\ streaming

(* One symbol: passed over after an interruption or when it is subscribed  *)
(* already, else asked for.                                                *)
FeedsNext(s) ==
  /\ batch.at = "asking" /\ s \in batch.todo
  /\ LET gone == batch.interrupted \/ ~ProviderStands IN
     batch' = [batch EXCEPT !.interrupted = gone,
                 !.todo = IF gone THEN {} ELSE batch.todo \ {s}, !.sym = s,
                 !.at = IF ~gone /\ s \notin streamed THEN "subscribing" ELSE "asking"]
  /\ UNCHANGED <<streamer, streaming, streamed>>

(* What was asked of a provider that is gone is asked in vain.             *)
FeedReturned ==
  /\ batch.at = "subscribing"
  /\ \/ /\ streamed' = IF streamer = batch.of THEN streamed \cup {batch.sym} ELSE streamed
        /\ batch' = [batch EXCEPT !.at = "asking"]
     \/ /\ batch' = [batch EXCEPT !.at = "asking", !.failed = TRUE]
        /\ UNCHANGED streamed
  /\ UNCHANGED <<streamer, streaming>>

FeedsAnswered ==
  /\ batch.at = "asking" /\ batch.todo = {}
  /\ batch' = [batch EXCEPT !.at = "answered",
                 !.status = IF batch.interrupted \/ ~ProviderStands THEN "interrupted"
                            ELSE IF batch.failed THEN "partial_failure" ELSE "completed"]
  /\ UNCHANGED <<streamer, streaming, streamed>>

(* Another provider takes over, or this one loses or regains its           *)
(* connection, at any time.                                                *)
StreamerChanges ==
  /\ \/ /\ streamer < MaxProviders
        /\ streamer' = streamer + 1 /\ streaming' = TRUE /\ streamed' = {}
     \/ streamer # 0 /\ streaming' = ~streaming /\ UNCHANGED <<streamer, streamed>>
  /\ UNCHANGED batch

BatchNext ==
  \/ AskFeeds \/ FeedsRead \/ FeedsBegin \/ FeedReturned \/ FeedsAnswered
  \/ \E s \in FeedTickers : FeedsNext(s)
  \/ StreamerChanges

BatchSpec == BatchInit /\ [][BatchNext]_batchVars

BatchTypeOK ==
  /\ batch \in [at : {"idle", "reading", "read", "asking", "subscribing", "answered"},
                read : SUBSET FeedTickers, todo : SUBSET FeedTickers, of : 0 .. MaxProviders,
                sym : FeedTickers \cup {"none"}, failed : BOOLEAN, interrupted : BOOLEAN,
                status : {"none", "refused", "interrupted", "partial_failure", "completed"}]
  /\ streamed \in SUBSET FeedTickers /\ streamer \in 0 .. MaxProviders /\ streaming \in BOOLEAN

(* "completed" is answered only when the provider that streams now, and no *)
(* predecessor of it, has been asked for every symbol the batch read.      *)
CompletedMeansAsked ==
  [][batch'.status = "completed" /\ batch.status # "completed" =>
       batch.read \subseteq streamed /\ streamer = batch.of /\ streaming]_batchVars
=============================================================================
