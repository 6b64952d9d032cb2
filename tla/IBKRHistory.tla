------------------------------ MODULE IBKRHistory ------------------------------
(***************************************************************************)
(* backtest_runner/ibkr_historical.py: the candles of one replay, asked    *)
(* for chunk by chunk over a connection of their own.                      *)
(*                                                                         *)
(* A candle is its minute; the bar of a minute that two chunks share may   *)
(* come back revised.  The gateway is external: an answer that is not      *)
(* whole comes with an error or a lost connection.                         *)
(***************************************************************************)
EXTENDS Integers, Sequences, FiniteSets, FiniteSetsExt, SequencesExt

CONSTANTS
  WindowStart, WindowEnd,  \* the interval to be replayed; before it from 0 is warm-up
  ChunkLength

VARIABLES
  traded,        \* minutes with a bar
  asked,         \* the start of the next chunk; Connecting before the first
  chunks,        \* answers so far
  notices,       \* errors reported during the request at hand
  lost,          \* whether the connection was ever lost
  adapter,       \* connected, and whether its listeners are attached
  result,        \* "none", "refused" or "dataset"
  dataset        \* its candles

historyVars == <<traded, asked, chunks, notices, lost, adapter, result, dataset>>

Minutes == 0 .. WindowEnd
Connecting == -1
Benign == {"no_data", "informational"}

HistoryInit ==
  /\ traded = {} /\ asked = Connecting /\ chunks = <<>> /\ notices = {} /\ lost = FALSE
  /\ adapter = [connected |-> FALSE, listening |-> FALSE] /\ result = "none" /\ dataset = <<>>

AdapterClosed == [connected |-> FALSE, listening |-> FALSE]

(* Whatever ends the acquisition, its connection and listeners end too.    *)
AcquisitionEnds(how, candles) == result' = how /\ dataset' = candles /\ adapter' = AdapterClosed
Refused == AcquisitionEnds("refused", <<>>)

ConnectGateway ==
  /\ asked = Connecting /\ result = "none"
  /\ traded' \in SUBSET Minutes
  /\ \/ asked' = 0 /\ adapter' = [connected |-> TRUE, listening |-> TRUE]
        /\ UNCHANGED <<result, dataset>>
     \/ Refused /\ UNCHANGED asked
  /\ UNCHANGED <<chunks, notices, lost>>

---------------------------------------------------------------------------
(* One request: what comes back, what is reported meanwhile, and whether   *)
(* the connection is lost meanwhile                                        *)

ChunkEnd(at) == Min({at + ChunkLength, WindowEnd})

(* Bars at both ends of the chunk                                          *)
Whole(at, revised) ==
  {[ts |-> t, revised |-> revised /\ t = at] : t \in traded \cap (at .. ChunkEnd(at))}

(* mutant: a lost connection shows in the request only                     *)
Inspected_NoticesOnly(reported, gone) == reported \subseteq Benign

(* inspect_request_state                                                   *)
Inspected(reported, gone) == ~gone /\ reported \subseteq Benign

RequestChunk ==
  /\ asked \in 0 .. WindowEnd - 1 /\ result = "none"
  /\ \E revised \in BOOLEAN, reported \in SUBSET {"no_data", "request"}, gone \in BOOLEAN :
       LET whole == Whole(asked, revised)
       IN /\ notices' = reported /\ lost' = (lost \/ gone)
          /\ \E answer \in {whole, {}} :
               /\ answer # whole => gone \/ "request" \in reported
               /\ IF Inspected(reported, lost')
                  THEN /\ chunks' = Append(chunks, answer)
                       /\ asked' = ChunkEnd(asked)
                       /\ UNCHANGED <<result, dataset, adapter>>
                  ELSE Refused /\ UNCHANGED <<chunks, asked>>
  /\ UNCHANGED traded

(* A request that raises or is not answered in time                        *)
RequestFails ==
  /\ asked # Connecting /\ result = "none" /\ Refused
  /\ UNCHANGED <<traded, asked, chunks, notices, lost>>

---------------------------------------------------------------------------
ChunkBars == UNION {chunks[i] : i \in DOMAIN chunks}
InInterval(bars) == {b \in bars : 0 <= b.ts /\ b.ts < WindowEnd}

(* mutant: the later of two answers counts                                 *)
Conflict_Never == FALSE

Conflict == \E b, c \in InInterval(ChunkBars) : b.ts = c.ts /\ b.revised # c.revised

(* _merge_exact, after the daily candles                                   *)
MergedExact == SetToSortSeq({b.ts : b \in InInterval(ChunkBars)}, <)

Assemble ==
  /\ asked = WindowEnd /\ result = "none"
  /\ IF Conflict \/ ~\E i \in DOMAIN MergedExact : MergedExact[i] >= WindowStart THEN Refused
     ELSE AcquisitionEnds("dataset", MergedExact)
  /\ UNCHANGED <<traded, asked, chunks, notices, lost>>

HistoryNext == ConnectGateway \/ RequestChunk \/ RequestFails \/ Assemble

---------------------------------------------------------------------------
HistoryTypeOK ==
  /\ traded \subseteq Minutes /\ asked \in Minutes \cup {Connecting}
  /\ dataset \in Seq(Minutes) /\ result \in {"none", "refused", "dataset"}

(* A dataset is whole: every minute of the interval and its warm-up that   *)
(* was traded, once, in order, with nothing of another interval, and with  *)
(* one version of each bar; it is never made of answers to a connection    *)
(* that was lost.                                                          *)
DatasetWhole ==
  result = "dataset" =>
    /\ dataset = SetToSortSeq(traded \cap (0 .. WindowEnd - 1), <)
    /\ dataset # <<>> /\ dataset[Len(dataset)] >= WindowStart
    /\ ~lost
    /\ \A b, c \in ChunkBars : b.ts = c.ts /\ b.ts < WindowEnd => b = c

(* The connection of an acquisition does not outlive it.                   *)
NothingLeftOpen == result # "none" => adapter = AdapterClosed
=============================================================================
