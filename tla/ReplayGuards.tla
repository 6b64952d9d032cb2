----------------------------- MODULE ReplayGuards -----------------------------
(***************************************************************************)
(* api/routes/backtest.py, backtest_runner/engine_singleton_guard.py and   *)
(* historical_provider_guard.py: requests to replay candles through the    *)
(* engines of the process, while market-data providers come and go.        *)
(*                                                                         *)
(* A replay owns the process-wide engines and the historical role between  *)
(* two awaits; what it replays is left to ReplayRun.                       *)
(***************************************************************************)
EXTENDS Integers, Sequences, FiniteSets, SequencesExt

CONSTANTS
  Requests,       \* strings
  SweepLength,    \* items of a sweep; a run has one
  MaxProviderCalls

ASSUME RequestAssumption ==
  Requests \cap {"live", "none", "finnhub", "polygon", "ibkr"} = {} /\ SweepLength \in Nat \ {0}

VARIABLES
  replays,       \* what each request does, and the results it has
  runLock,        \* _RUN_LOCK: whether it is held, and who waits
  engines,        \* "live", or the request whose engines are installed
  historical, streaming,  \* the roles of broker_registry
  provider,       \* the adapters of the three routes
  runRows,        \* rows of the table of runs: <<request, item>>
  liveRole,       \* what the historical role would be if nothing was replayed
  disturbed,      \* a provider came or went between a check and the end
  providerCalls

replayVars == <<replays, runLock, engines, historical, streaming, provider, runRows,
                liveRole, disturbed, providerCalls>>

Kinds == {"fixture", "stored", "sweep", "storedSweep"}
Sweeps == {"sweep", "storedSweep"}
ReadsStored == {"stored", "storedSweep"}
Slow == {"polygon", "ibkr"}

ReplayInit ==
  /\ replays = [r \in Requests |->
                  [kind |-> "none", at |-> "idle", item |-> 1, saved |-> "none", results |-> <<>>]]
  /\ runLock = [held |-> FALSE, waiting |-> <<>>]
  /\ engines = "live" /\ historical = "none" /\ streaming = "none"
  /\ provider = [p \in {"finnhub", "polygon", "ibkr"} |-> "off"]
  /\ runRows = {} /\ liveRole = "none" /\ disturbed = FALSE /\ providerCalls = 0

---------------------------------------------------------------------------
(* finnhub_data.is_streaming_active, market_data.is_connected and          *)
(* broker.is_connected                                                     *)

StreamingActive == provider["finnhub"] \in {"connecting", "on"}
PolygonConnected == provider["polygon"] = "on"
IBKRConnected == provider["ibkr"] = "on" /\ "ibkr" \in {streaming, historical}

LiveDataConnected == StreamingActive \/ PolygonConnected \/ IBKRConnected

---------------------------------------------------------------------------
(* asyncio.Lock: who does not get it at once waits in line.                *)

LockFree == ~runLock.held /\ runLock.waiting = <<>>
MayTake(who) == ~runLock.held /\ runLock.waiting # <<>> /\ Head(runLock.waiting) = who
Join(who) == runLock' = [runLock EXCEPT !.waiting = Append(@, who)]
Taken ==
  runLock' = [held |-> TRUE,
              waiting |-> IF runLock.waiting = <<>> THEN <<>> ELSE Tail(runLock.waiting)]
Release == runLock' = [runLock EXCEPT !.held = FALSE]

(* A request between its last check and its end                            *)
Exposed == \E r \in Requests : replays[r].at \in {"install", "waiting", "recording", "replaying"}

---------------------------------------------------------------------------
(* The routes                                                              *)

Moves(r, at) == replays' = [replays EXCEPT ![r].at = at]

LastItem(r) == replays[r].kind \notin Sweeps \/ replays[r].item = SweepLength

(* The result of one item; a sweep goes on with the next.                  *)
Ends(r, result) ==
  replays' = [replays EXCEPT ![r] =
                [kind |-> @.kind, saved |-> "none", results |-> Append(@.results, result),
                 item |-> IF LastItem(r) THEN @.item ELSE @.item + 1,
                 at |-> IF LastItem(r) THEN "answered"
                        ELSE IF @.kind = "sweep" THEN "install" ELSE "checking"]]

RolesStay == UNCHANGED <<historical, streaming, provider, liveRole, disturbed, providerCalls>>

(* mutant: whether Finnhub streams was asked before the lock               *)
Excluded_Earlier == FALSE

Excluded == StreamingActive

Installs(r) ==
  /\ replays' = [replays EXCEPT ![r] = [@ EXCEPT !.at = "recording", !.saved = historical]]
  /\ engines' = r /\ historical' = r /\ Taken

(* A refusal under the lock counts as a failure of the replay.             *)
Attempt(r) ==
  CASE ~LockFree -> Join(r) /\ Moves(r, "waiting") /\ UNCHANGED <<engines, historical>>
    [] LockFree /\ Excluded -> Ends(r, "during_replay") /\ UNCHANGED <<engines, historical, runLock>>
    [] OTHER -> Installs(r)

Arrives(r) ==
  /\ replays[r].at = "idle"
  /\ \E k \in Kinds : replays' = [replays EXCEPT ![r] = [@ EXCEPT !.kind = k, !.at = "asked"]]
  /\ UNCHANGED <<runLock, engines, runRows>> /\ RolesStay

(* The whole request is refused, or no await lies between the check and    *)
(* the lock.                                                               *)
Ask(r) ==
  /\ replays[r].at = "asked"
  /\ CASE LiveDataConnected ->
            /\ replays' = [replays EXCEPT ![r] = [@ EXCEPT !.at = "answered", !.results = <<"refused">>]]
            /\ UNCHANGED <<engines, historical, runLock>>
       [] ~LiveDataConnected /\ replays[r].kind \in ReadsStored ->
            Moves(r, "checking") /\ UNCHANGED <<engines, historical, runLock>>
       [] OTHER -> Attempt(r)
  /\ UNCHANGED <<runRows, streaming, provider, liveRole, disturbed, providerCalls>>

(* A sweep over scenarios goes on with the next without another check.     *)
NextPair(r) ==
  /\ replays[r].at = "install" /\ Attempt(r)
  /\ UNCHANGED <<runRows, streaming, provider, liveRole, disturbed, providerCalls>>

(* One over recorded candles asks again for each symbol, before they are   *)
(* read and after.                                                         *)
BeginReading(r) ==
  /\ replays[r].at = "checking"
  /\ IF replays[r].kind = "storedSweep" /\ LiveDataConnected THEN Ends(r, "before_replay")
     ELSE Moves(r, "reading")
  /\ UNCHANGED <<runLock, engines, runRows>> /\ RolesStay

(* mutant: what was checked before the read still holds after it           *)
StillAllowed_Unchecked == TRUE

StillAllowed == ~LiveDataConnected

ReadCandles(r) ==
  /\ replays[r].at = "reading"
  /\ \/ Ends(r, "before_replay") /\ UNCHANGED <<engines, historical, runLock>>
     \/ StillAllowed /\ Attempt(r)
  /\ UNCHANGED <<runRows, streaming, provider, liveRole, disturbed, providerCalls>>

InstallAfterWait(r) ==
  /\ replays[r].at = "waiting" /\ MayTake(r)
  /\ IF Excluded THEN /\ Ends(r, "during_replay") /\ UNCHANGED <<engines, historical>>
                      /\ runLock' = [runLock EXCEPT !.waiting = Tail(@)]
     ELSE Installs(r)
  /\ UNCHANGED <<runRows, streaming, provider, liveRole, disturbed, providerCalls>>

(* mutant: what is restored is what there is when the replay ends          *)
RestoredRole_Late(r) == historical

RestoredRole(r) == replays[r].saved

Restores(r, result) ==
  /\ engines' = "live" /\ historical' = RestoredRole(r) /\ Release
  /\ Ends(r, result)

(* The row of the run is written before its first candle.                  *)
RecordRun(r) ==
  /\ replays[r].at = "recording"
  /\ \/ /\ runRows' = runRows \cup {<<r, replays[r].item>>} /\ Moves(r, "replaying")
        /\ UNCHANGED <<runLock, engines, historical>>
     \/ Restores(r, "during_replay") /\ UNCHANGED runRows
  /\ UNCHANGED <<streaming, provider, liveRole, disturbed, providerCalls>>

(* The replay ends or raises; either way what was there before comes back. *)
EndReplay(r) ==
  /\ replays[r].at = "replaying"
  /\ Restores(r, "done") \/ Restores(r, "during_replay")
  /\ UNCHANGED <<runRows, streaming, provider, liveRole, disturbed, providerCalls>>

Request(r) ==
  \/ Ask(r) \/ NextPair(r) \/ BeginReading(r) \/ ReadCandles(r)
  \/ InstallAfterWait(r) \/ RecordRun(r) \/ EndReplay(r)

---------------------------------------------------------------------------
(* The routes of the providers                                             *)

ProviderCall == providerCalls < MaxProviderCalls /\ providerCalls' = providerCalls + 1
ReplaysStay == UNCHANGED <<replays, engines, runRows>>

(* take_over_streaming: the provider before is let go unless it has the    *)
(* other role.                                                             *)
TakesOver(p, providers) ==
  /\ streaming' = p
  /\ provider' = IF streaming \in {"none", p} \/ historical = streaming THEN providers
                 ELSE [providers EXCEPT ![streaming] = "off"]

(* connect_finnhub: refused while something is replayed, and alone in the  *)
(* slot.                                                                   *)
ConnectFinnhub ==
  /\ provider["finnhub"] = "off" /\ ~runLock.held /\ ProviderCall
  /\ IF runLock.waiting = <<>>
     THEN Taken /\ provider' = [provider EXCEPT !["finnhub"] = "connecting"]
     ELSE Join("finnhub") /\ provider' = [provider EXCEPT !["finnhub"] = "waiting"]
  /\ ReplaysStay /\ UNCHANGED <<historical, streaming, liveRole, disturbed>>

EnterSlot ==
  /\ provider["finnhub"] = "waiting" /\ MayTake("finnhub") /\ Taken
  /\ provider' = [provider EXCEPT !["finnhub"] = "connecting"]
  /\ ReplaysStay /\ UNCHANGED <<historical, streaming, liveRole, disturbed, providerCalls>>

FinnhubConnected ==
  /\ provider["finnhub"] = "connecting" /\ Release
  /\ TakesOver("finnhub", [provider EXCEPT !["finnhub"] = "on"])
  /\ ReplaysStay /\ UNCHANGED <<historical, liveRole, disturbed, providerCalls>>

(* It cannot connect, or is disconnected meanwhile.                        *)
FinnhubFails ==
  /\ provider["finnhub"] = "connecting" /\ Release
  /\ provider' = [provider EXCEPT !["finnhub"] = "off"]
  /\ ReplaysStay /\ UNCHANGED <<historical, streaming, liveRole, disturbed, providerCalls>>

DisconnectFinnhub ==
  /\ provider["finnhub"] = "on"
  /\ provider' = [provider EXCEPT !["finnhub"] = "off"]
  /\ streaming' = IF streaming = "finnhub" THEN "none" ELSE streaming
  /\ ReplaysStay /\ UNCHANGED <<runLock, historical, liveRole, disturbed, providerCalls>>

(* connect_polygon and broker.connect: nobody asks whether something is    *)
(* replayed.                                                               *)
ConnectProvider(p) ==
  /\ provider[p] = "off" /\ ProviderCall
  /\ provider' = [provider EXCEPT ![p] = "connecting"]
  /\ ReplaysStay /\ UNCHANGED <<runLock, historical, streaming, liveRole, disturbed>>

ProviderConnected(p) ==
  /\ provider[p] = "connecting"
  /\ \/ /\ historical' = p /\ liveRole' = p /\ disturbed' = (disturbed \/ Exposed)
        /\ IF p = "polygon" /\ streaming # "none"
           THEN provider' = [provider EXCEPT ![p] = "on"] /\ UNCHANGED streaming
           ELSE TakesOver(p, [provider EXCEPT ![p] = "on"])
     \/ /\ provider' = [provider EXCEPT ![p] = "off"]
        /\ UNCHANGED <<historical, streaming, liveRole, disturbed>>
  /\ ReplaysStay /\ UNCHANGED <<runLock, providerCalls>>

DisconnectPolygon ==
  /\ provider["polygon"] = "on"
  /\ provider' = [provider EXCEPT !["polygon"] = "off"]
  /\ historical' = IF historical = "polygon" THEN "none" ELSE historical
  /\ liveRole' = IF liveRole = "polygon" THEN "none" ELSE liveRole
  /\ streaming' = IF streaming = "polygon" THEN "none" ELSE streaming
  /\ disturbed' = (disturbed \/ Exposed)
  /\ ReplaysStay /\ UNCHANGED <<runLock, providerCalls>>

(* broker.disconnect: whoever streams, and both roles                      *)
DisconnectBroker ==
  /\ provider' = IF streaming = "none" THEN provider ELSE [provider EXCEPT ![streaming] = "off"]
  /\ streaming' = "none" /\ historical' = "none" /\ liveRole' = "none"
  /\ disturbed' = (disturbed \/ (Exposed /\ historical # "none"))
  /\ ReplaysStay /\ UNCHANGED <<runLock, providerCalls>>

Provide ==
  \/ ConnectFinnhub \/ EnterSlot \/ FinnhubConnected \/ FinnhubFails \/ DisconnectFinnhub
  \/ \E p \in Slow : ConnectProvider(p) \/ ProviderConnected(p)
  \/ DisconnectPolygon \/ DisconnectBroker

ReplayNext == (\E r \in Requests : Arrives(r) \/ Request(r)) \/ Provide

---------------------------------------------------------------------------
Results == {"refused", "before_replay", "during_replay", "done"}

ReplayTypeOK ==
  /\ \A r \in Requests : replays[r].results \in Seq(Results) /\ replays[r].item \in 1 .. SweepLength
  /\ engines \in Requests \cup {"live"}
  /\ runRows \subseteq Requests \X (1 .. SweepLength)

(* One replay at a time, with its own engines, and none while Finnhub      *)
(* streams or may stream again.                                            *)
OneReplay ==
  /\ \A r \in Requests : replays[r].at \in {"recording", "replaying"} <=> engines = r
  /\ engines # "live" => runLock.held /\ ~StreamingActive

(* A replay reads its own candles, nobody else does, and afterwards the    *)
(* historical role is what it would be without it; but for providers that  *)
(* came or went after the last check.                                      *)
ReplayLeavesNoTrace ==
  ~disturbed => /\ engines = "live" => historical = liveRole
                /\ engines # "live" => historical = engines /\ ~PolygonConnected /\ ~IBKRConnected

(* A sweep has one result for each item asked for, in order; what failed   *)
(* before its replay left no row, and what is done has one.                *)
ResultsHonest ==
  \A r \in Requests :
    LET results == replays[r].results
        rest == <<r, replays[r].item>>
    IN /\ replays[r].at = "answered" /\ results # <<"refused">> =>
            Len(results) = IF replays[r].kind \in Sweeps THEN SweepLength ELSE 1
       /\ \A i \in DOMAIN results :
            /\ results[i] \in {"refused", "before_replay"} => <<r, i>> \notin runRows
            /\ results[i] = "done" => <<r, i>> \in runRows
       /\ replays[r].at \in {"checking", "reading", "install", "waiting", "recording"} =>
            rest \notin runRows
=============================================================================
