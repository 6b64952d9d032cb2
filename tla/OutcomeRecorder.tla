--------------------------- MODULE OutcomeRecorder ---------------------------
(***************************************************************************)
(* trading_intelligence/outcome_recorder.py: one worker turns notices into *)
(* rows of the database, a sweep finds what no notice told it.             *)
(*                                                                         *)
(* A trade is filled lot by lot and closed by the transaction of Portfolio *)
(* State; what its entry order has left may be cancelled, or be filled     *)
(* after the close and open a second position.  A snapshot is the number   *)
(* of entry fills and the closure that were known when it was taken.       *)
(***************************************************************************)
EXTENDS Integers, Sequences, FiniteSets, SequencesExt

CONSTANTS
  RecordedTrades,
  EntryLots,        \* what the entry order of each is of
  BatchSize,        \* of a page of the scan
  MaxRecorderFaults \* bound: failed transactions, crashes, stops

ASSUME RecorderAssumption == EntryLots \in [RecordedTrades -> Nat \ {0}] /\ BatchSize \in Nat \ {0}

VARIABLES
  entryFills, closings,        \* the ledger: fills, trades in the order they closed
  story,                       \* its entry: "working", "ended", "second position"; or "defective"
  entrySnapshot,               \* entry_snapshot_captured_at and what was captured
  verdict, recordedAs,         \* outcome_status, and the outcome row
  recorder, work, item, step, held, startupCursor, scanCursor,
  recorderFaults

ledgerRows == <<entryFills, closings, story>>
verdictRows == <<entrySnapshot, verdict, recordedAs>>
recorderVars == <<ledgerRows, verdictRows, recorder, work, item, step, held,
                  startupCursor, scanCursor, recorderFaults>>

NoSnapshot == [fills |-> 0, closed |-> FALSE]
NoOutcome == [entry |-> NoSnapshot, fills |-> 0, made |-> FALSE]
NoItem == <<"none", "none">>
NoCursor == 0
Scanned == -1        \* startupCursor when the startup scan is over
Closed == Range(closings)
Known(t) == [fills |-> entryFills[t], closed |-> t \in Closed]

RecorderInit ==
  /\ entryFills = [t \in RecordedTrades |-> 0] /\ closings = <<>>
  /\ story = [t \in RecordedTrades |-> "working"]
  /\ entrySnapshot = [t \in RecordedTrades |-> NoSnapshot]
  /\ verdict = [t \in RecordedTrades |-> "pending"]
  /\ recordedAs = [t \in RecordedTrades |-> NoOutcome]
  /\ recorder = "stopped" /\ work = <<>> /\ item = NoItem /\ step = "idle" /\ held = NoSnapshot
  /\ startupCursor = Scanned /\ scanCursor = NoCursor /\ recorderFaults = 0

RecorderFault == recorderFaults < MaxRecorderFaults /\ recorderFaults' = recorderFaults + 1

(* A set of numbers from the least to the greatest.                        *)
Below(S, i) == {k \in S : k < i}
Listed(S) == [n \in 1 .. Cardinality(S) |-> CHOOSE i \in S : Cardinality(Below(S, i)) = n - 1]

(* _enqueue: a key that is waiting or being worked on is not added again.  *)
Enqueued(q, keys) ==
  LET new == Listed({i \in DOMAIN keys : keys[i] \notin Range(q) \cup {item}})
  IN q \o [n \in DOMAIN new |-> keys[new[n]]]
Heard(key) == IF recorder = "running" THEN Enqueued(work, <<key>>) ELSE work

---------------------------------------------------------------------------
(* The ledger moves and its notices arrive, or are lost with a process     *)
(* that crashed before publishing.                                         *)
EntryFilled(t) ==
  /\ story[t] = "working"
  /\ entryFills' = [entryFills EXCEPT ![t] = @ + 1]
  /\ story' = [story EXCEPT ![t] = IF t \in Closed THEN "second position"
                                   ELSE IF entryFills[t] + 1 = EntryLots[t] THEN "ended" ELSE @]
  /\ work' = Heard(<<"entry", t>>)
  /\ UNCHANGED <<closings, verdictRows, recorder, item, step, held,
                 startupCursor, scanCursor, recorderFaults>>

(* What is left of the entry order is cancelled; nobody is told.           *)
EntryCancelled(t) ==
  /\ story[t] = "working" /\ entryFills[t] > 0
  /\ story' = [story EXCEPT ![t] = "ended"]
  /\ UNCHANGED <<entryFills, closings, verdictRows, recorder, work, item, step, held,
                 startupCursor, scanCursor, recorderFaults>>

TradeClosed(t) ==
  /\ entryFills[t] > 0 /\ t \notin Closed
  /\ closings' = Append(closings, t)
  /\ \E s \in {story[t], "defective"} : story' = [story EXCEPT ![t] = s]
  /\ \/ work' = Heard(<<"close", t>>) /\ UNCHANGED recorderFaults
     \/ recorder = "running" /\ RecorderFault /\ UNCHANGED work
  /\ UNCHANGED <<entryFills, verdictRows, recorder, item, step, held, startupCursor, scanCursor>>

---------------------------------------------------------------------------
(* start, stop, crash                                                      *)

StartRecorder ==
  /\ recorder = "stopped" /\ recorder' = "running"
  /\ startupCursor' = NoCursor /\ scanCursor' = NoCursor
  /\ UNCHANGED <<ledgerRows, verdictRows, work, item, step, held, recorderFaults>>

(* stop unsubscribes and cancels the sweep; the worker then drains.  The   *)
(* restart is that of the process.                                         *)
StopRecorder ==
  /\ recorder = "running" /\ startupCursor = Scanned /\ RecorderFault
  /\ recorder' = "draining"
  /\ UNCHANGED <<ledgerRows, verdictRows, work, item, step, held, startupCursor, scanCursor>>

Drained ==
  /\ recorder = "draining" /\ work = <<>> /\ item = NoItem
  /\ recorder' = "stopped"
  /\ UNCHANGED <<ledgerRows, verdictRows, work, item, step, held, startupCursor, scanCursor, recorderFaults>>

CrashRecorder ==
  /\ recorder # "stopped" /\ RecorderFault
  /\ recorder' = "stopped" /\ work' = <<>> /\ item' = NoItem /\ step' = "idle" /\ held' = NoSnapshot
  /\ startupCursor' = Scanned
  /\ UNCHANGED <<ledgerRows, verdictRows, scanCursor>>

(* _pending_rows: a page of the closed trades without a verdict, in the    *)
(* order of closing, after a cursor.                                       *)
PendingAfter(c) ==
  LET left == {i \in DOMAIN closings : i > c /\ verdict[closings[i]] \notin {"recorded", "blocked"}}
      page == Listed(left)
  IN SubSeq(page, 1, IF Len(page) < BatchSize THEN Len(page) ELSE BatchSize)
Closes(page) == [i \in DOMAIN page |-> <<"close", closings[page[i]]>>]

StartupScan ==
  /\ recorder = "running" /\ startupCursor # Scanned
  /\ LET page == PendingAfter(startupCursor)
     IN /\ work' = Enqueued(work, Closes(page))
        /\ startupCursor' = IF Len(page) < BatchSize THEN Scanned ELSE Last(page)
  /\ UNCHANGED <<ledgerRows, verdictRows, recorder, item, step, held, scanCursor, recorderFaults>>

(* mutant: the cursor is not taken back to the start                       *)
Rotated_Never(page) == page

Rotated(page) == IF page = <<>> /\ scanCursor # NoCursor THEN PendingAfter(NoCursor) ELSE page

(* scan: one page, and round again when nothing is left after the cursor.  *)
Sweep ==
  /\ recorder = "running" /\ startupCursor = Scanned
  /\ LET page == Rotated(PendingAfter(scanCursor))
     IN /\ work' = Enqueued(work, Closes(page))
        /\ scanCursor' = IF page # <<>> THEN Last(page) ELSE scanCursor
  /\ UNCHANGED <<ledgerRows, verdictRows, recorder, item, step, held, startupCursor, recorderFaults>>

---------------------------------------------------------------------------
(* The worker                                                              *)

GetItem ==
  /\ recorder # "stopped" /\ item = NoItem /\ work # <<>>
  /\ item' = Head(work) /\ work' = Tail(work) /\ step' = "read"
  /\ UNCHANGED <<ledgerRows, verdictRows, recorder, held, startupCursor, scanCursor, recorderFaults>>

WorkerStill == UNCHANGED <<ledgerRows, recorder, work, startupCursor, scanCursor>>
EndItem == item' = NoItem /\ step' = "idle" /\ held' = NoSnapshot

(* A transaction that fails in a way nothing handles ends the item.        *)
ItemFails ==
  /\ step \in {"read", "store", "retry"} /\ RecorderFault /\ EndItem
  /\ WorkerStill /\ UNCHANGED verdictRows


(* _entry_candidate *)
MayCapture(t) == t \notin Closed /\ entrySnapshot[t] = NoSnapshot /\ entryFills[t] = 1

ReadItem ==
  /\ step = "read"
  /\ LET t == item[2]
     IN IF IF item[1] = "entry" THEN MayCapture(t)
           ELSE t \in Closed /\ verdict[t] \notin {"recorded", "blocked"}
        THEN step' = IF item[1] = "entry" THEN "capture" ELSE "record"
        ELSE step' = "done"
  /\ WorkerStill /\ UNCHANGED <<verdictRows, item, held, recorderFaults>>

EndRead ==
  /\ step = "done" /\ EndItem /\ WorkerStill /\ UNCHANGED <<verdictRows, recorderFaults>>

(* The snapshots are taken on the event loop once the read has returned.   *)
CaptureEntry ==
  /\ step = "capture" /\ held' = Known(item[2]) /\ step' = "store"
  /\ WorkerStill /\ UNCHANGED <<verdictRows, item, recorderFaults>>

(* mutant: what the read saw is taken to be so still                       *)
MayStore_Unchecked(t) == TRUE

MayStore(t) == t \notin Closed /\ entrySnapshot[t] = NoSnapshot

StoreEntry ==
  /\ step = "store" /\ EndItem
  /\ entrySnapshot' = IF MayStore(item[2]) THEN [entrySnapshot EXCEPT ![item[2]] = held] ELSE entrySnapshot
  /\ WorkerStill /\ UNCHANGED <<verdict, recordedAs, recorderFaults>>


Settled(t) == verdict[t] \in {"recorded", "blocked"}

(* mutant: an order that is still working is no obstacle                   *)
Supported_Partly(t) == story[t] \in {"working", "ended"}

(* _build: fills, orders and position tell of one whole trade.             *)
Supported(t) == story[t] = "ended"

(* _record_locked: verdict and outcome row in one transaction.             *)
Recorded(t) ==
  IF Settled(t) THEN UNCHANGED <<verdict, recordedAs>>
  ELSE IF Supported(t)
  THEN /\ verdict' = [verdict EXCEPT ![t] = "recorded"]
       /\ recordedAs' = [recordedAs EXCEPT ![t] = [entry |-> entrySnapshot[t], fills |-> entryFills[t], made |-> TRUE]]
  ELSE verdict' = [verdict EXCEPT ![t] = "blocked"] /\ UNCHANGED recordedAs

RecordOutcome ==
  /\ step = "record" /\ Recorded(item[2]) /\ EndItem
  /\ WorkerStill /\ UNCHANGED <<entrySnapshot, recorderFaults>>

(* The transaction raises, committed or not.                               *)
RecordFails ==
  /\ step = "record" /\ RecorderFault /\ step' = "retry"
  /\ UNCHANGED <<verdict, recordedAs>> \/ Recorded(item[2])
  /\ WorkerStill /\ UNCHANGED <<entrySnapshot, item, held>>

(* mutant: the retry mark is written over a verdict                        *)
MayMark_Always(t) == TRUE

MayMark(t) == verdict[t] # "recorded" /\ verdict[t] # "blocked"

MarkRetry ==
  /\ step = "retry" /\ EndItem
  /\ verdict' = IF MayMark(item[2]) THEN [verdict EXCEPT ![item[2]] = "pending_retry"] ELSE verdict
  /\ WorkerStill /\ UNCHANGED <<entrySnapshot, recordedAs, recorderFaults>>

WorkItem ==
  \/ GetItem \/ ReadItem \/ EndRead \/ CaptureEntry \/ StoreEntry \/ RecordOutcome \/ MarkRetry

RecorderNext ==
  \/ \E t \in RecordedTrades : EntryFilled(t) \/ EntryCancelled(t) \/ TradeClosed(t)
  \/ StartRecorder \/ StopRecorder \/ Drained \/ CrashRecorder
  \/ StartupScan \/ Sweep \/ WorkItem \/ ItemFails \/ RecordFails

---------------------------------------------------------------------------
RecorderTypeOK ==
  /\ (\A t \in RecordedTrades : entryFills[t] \in 0 .. EntryLots[t]) /\ Closed \subseteq RecordedTrades
  /\ verdict \in [RecordedTrades -> {"pending", "pending_retry", "recorded", "blocked"}]
  /\ step \in {"idle", "read", "done", "capture", "store", "record", "retry"}
  /\ item # NoItem <=> step # "idle"
  /\ \A t \in RecordedTrades : recordedAs[t].made <=> verdict[t] = "recorded"

(* An outcome tells of every entry fill its trade will ever have, and one  *)
(* with a snapshot of the entry knew one fill and no closure.              *)
OutcomesWhole ==
  \A t \in RecordedTrades : recordedAs[t].made =>
    recordedAs[t].fills = entryFills[t] /\ ~recordedAs[t].entry.closed

(* A verdict is final and an outcome is written once, though its           *)
(* transaction may have committed and raised, though sweeps, notices and   *)
(* restarts name the trade again; nor does a snapshot change, or appear    *)
(* once the trade has closed.                                              *)
VerdictsStand ==
  [][\A t \in RecordedTrades :
       /\ Settled(t) => verdict'[t] = verdict[t] /\ recordedAs'[t] = recordedAs[t]
       /\ entrySnapshot'[t] # entrySnapshot[t] => entrySnapshot[t] = NoSnapshot /\ t \notin Closed]_recorderVars

(* Every closed trade gets its verdict, whatever notices were lost.        *)
EveryCloseIsJudged == []<>(\A t \in Closed : Settled(t))
=============================================================================
